---------------------------- MODULE Spec2Model ----------------------------
(***************************************************************************)
(* A model of outrun's caching file system: the remote cache engine        *)
(* (outrun/filesystem/caching/cache.py), the local cache service it talks  *)
(* to (outrun/filesystem/caching/service.py), the prefetch rules           *)
(* (outrun/filesystem/caching/prefetching.py) and the data they exchange   *)
(* (outrun/filesystem/caching/common.py, outrun/filesystem/common.py).     *)
(*                                                                         *)
(* Strings (paths, machine ids, file data) are sequences of one-character  *)
(* strings, so that f"{machine_id}:{path}", endswith, replace and normpath *)
(* are computed as the code computes them.  A Python Optional is a         *)
(* sequence of length <= 1: <<>> is None and <<x>> is the value x.         *)
(***************************************************************************)
EXTENDS Integers, Sequences, FiniteSets, TLC

---------------------------------------------------------------------------
(* Bounds of the model (not program constants).                            *)

\* The wall clock (time.time()) runs from 0 to MaxClock.
MaxClock == 1
\* Number of blob files (uuid4 names) that may be created in one run.
MaxBlobs == 3
\* Number of changes made to the local machine's files in one run.
MaxLocalChanges == 1
\* Fetch counters stop counting at this value.
MaxCount == 2
\* Number of file system threads of one session.
NumThreads == 2
\* Number of RPC calls one thread makes.
MaxCalls == 2
\* Number of messages programs other than the client send to the server.
MaxStrays == 1
\* Number of calls of LockIndex.lock a thread nests.
MaxDepth == 2
\* Number of threading.Lock objects a LockIndex makes in one run.
MaxMutexes == 3

---------------------------------------------------------------------------
(* Python values.                                                          *)

None == <<>>
Some(x) == <<x>>
IsNone(o) == o = <<>>
IsSome(o) == o # <<>>
Val(o) == o[1]

\* stat.S_IWUSR, stat.S_IWGRP, stat.S_IWOTH, stat.S_IRUSR and the file type
\* bits of st_mode (stat.S_IFMT is 0o170000: the type is st_mode // 0o10000).
S_IWUSR == 128
S_IWGRP == 16
S_IWOTH == 2
S_IRUSR == 2 * S_IWUSR
S_IFMT_UNIT == 4096
S_IFREG_T == 8
S_IFDIR_T == S_IFREG_T \div 2
S_IFLNK_T == 10

HasBit(mode, bit) == (mode \div bit) % 2 = 1
ClearBit(mode, bit) == IF HasBit(mode, bit) THEN mode - bit ELSE mode

S_ISREG(mode) == mode \div S_IFMT_UNIT = S_IFREG_T
S_ISDIR(mode) == mode \div S_IFMT_UNIT = S_IFDIR_T
S_ISLNK(mode) == mode \div S_IFMT_UNIT = S_IFLNK_T

\* An exception: its class name and its args (the errno name stands for the
\* (errno, strerror) pair of an OSError).
Exc(name, errno) == [name |-> name, args |-> <<errno>>]

---------------------------------------------------------------------------
(* String helpers (strings are sequences of characters).                   *)

StartsWith(s, pre) ==
    /\ Len(pre) <= Len(s)
    /\ SubSeq(s, 1, Len(pre)) = pre

EndsWith(s, suf) ==
    /\ Len(suf) <= Len(s)
    /\ SubSeq(s, Len(s) - Len(suf) + 1, Len(s)) = suf

\* str.replace(old, new): every non-overlapping occurrence, left to right.
RECURSIVE StrReplace(_, _, _)
StrReplace(s, old, new) ==
    IF s = <<>> THEN <<>>
    ELSE IF StartsWith(s, old)
         THEN new \o StrReplace(SubSeq(s, Len(old) + 1, Len(s)), old, new)
         ELSE <<Head(s)>> \o StrReplace(Tail(s), old, new)

\* The components of a path: the pieces between "/", empty pieces dropped.
RECURSIVE SplitAcc(_, _, _, _)
SplitAcc(p, i, cur, out) ==
    IF i > Len(p)
    THEN IF cur = <<>> THEN out ELSE Append(out, cur)
    ELSE IF p[i] = "/"
         THEN SplitAcc(p, i + 1, <<>>, IF cur = <<>> THEN out ELSE Append(out, cur))
         ELSE SplitAcc(p, i + 1, Append(cur, p[i]), out)

Components(p) == SplitAcc(p, 1, <<>>, <<>>)

RECURSIVE JoinComponents(_)
JoinComponents(cs) ==
    IF cs = <<>> THEN <<>>
    ELSE <<"/">> \o Head(cs) \o JoinComponents(Tail(cs))

\* os.path.normpath of an absolute path: "." is dropped, ".." pops a
\* component (and is dropped at the root).
RECURSIVE NormAcc(_, _)
NormAcc(cs, out) ==
    IF cs = <<>> THEN out
    ELSE IF Head(cs) = <<".">> THEN NormAcc(Tail(cs), out)
    ELSE IF Head(cs) = <<".", ".">>
         THEN NormAcc(Tail(cs),
                      IF out = <<>> THEN out ELSE SubSeq(out, 1, Len(out) - 1))
         ELSE NormAcc(Tail(cs), Append(out, Head(cs)))

normpath(p) ==
    LET cs == NormAcc(Components(p), <<>>)
    IN  IF cs = <<>> THEN <<"/">> ELSE JoinComponents(cs)

\* os.path.join(a, b) for an absolute a: an absolute b replaces a.
pathjoin(a, b) ==
    IF b # <<>> /\ b[1] = "/" THEN b
    ELSE IF EndsWith(a, <<"/">>) THEN a \o b ELSE a \o <<"/">> \o b

basename(p) ==
    LET cs == Components(p)
    IN  IF cs = <<>> \/ EndsWith(p, <<"/">>) THEN <<>> ELSE cs[Len(cs)]

\* os.path.commonpath([path, p]) == p, for absolute normalised paths: the
\* components of p are a prefix of the components of path.
CommonPathIs(path, p) ==
    LET a == Components(path)
        b == Components(p)
    IN  /\ Len(b) <= Len(a)
        /\ SubSeq(a, 1, Len(b)) = b

Range(seq) == {seq[i] : i \in 1..Len(seq)}

Contains(s, sub) ==
    \E i \in 1..(Len(s) + 1) :
        /\ i + Len(sub) - 1 <= Len(s)
        /\ SubSeq(s, i, i + Len(sub) - 1) = sub

\* A sequence listing the elements of a finite set, in a fixed order.
RECURSIVE SetToSeq(_)
SetToSeq(S) ==
    IF S = {} THEN <<>>
    ELSE LET x == CHOOSE y \in S : TRUE
         IN  <<x>> \o SetToSeq(S \ {x})

---------------------------------------------------------------------------
(* The paths of the model.                                                 *)

\* "/m.py": a Python source file; "/l": a second entry, possibly a symlink;
\* "/__pycache__": the bytecode directory python_pycache suggests.
PathPy == <<"/", "m", ".", "p", "y">>
PathL == <<"/", "l">>
PathCacheDir == <<"/", "_", "_", "p", "y", "c", "a", "c", "h", "e", "_", "_">>

\* The paths the file system adapter is asked for.
Paths == {PathPy, PathL}
\* Every path a file of the local machine may have.
AllPaths == {PathPy, PathL, PathCacheDir}

\* File data: byte strings of length 1 and 2.
DataF == <<"f">>
DataG == <<"g">>
DataFG == <<"f", "g">>
Datas == {DataF, DataG, DataFG}

\* st_mode values: regular rw-r--r--, regular --w------- (not readable by
\* its owner), directory rwxr-xr-x, symlink rwxrwxrwx.
ModeRegRW == S_IFREG_T * S_IFMT_UNIT + 420
ModeRegNoRead == S_IFREG_T * S_IFMT_UNIT + S_IWUSR
ModeDir == S_IFDIR_T * S_IFMT_UNIT + 493
ModeLnk == S_IFLNK_T * S_IFMT_UNIT + 511

---------------------------------------------------------------------------
(* The local machine's file system, as os.lstat, os.readlink and open see  *)
(* it.  A file system is a function from AllPaths to file records.         *)

File(exists, mode, data, mtime, link) ==
    [exists |-> exists, st_mode |-> mode, data |-> data,
     st_mtime_ns |-> mtime, st_atime_ns |-> 0, link |-> link]

NoFile == File(FALSE, 0, <<>>, 0, None)

Exists(fs, p) == p \in DOMAIN fs /\ fs[p].exists

\* Where a symlink at path p leads: os.path.join(p, "..", target), normalised.
LinkPath(p, target) == normpath(pathjoin(pathjoin(p, <<".", ".">>), target))

\* The file open(p) and os.path.realpath(p) reach, following symlinks.
RECURSIVE FollowLinks(_, _, _)
FollowLinks(fs, p, fuel) ==
    IF Exists(fs, p) /\ S_ISLNK(fs[p].st_mode) /\ fuel > 0
    THEN FollowLinks(fs, LinkPath(p, Val(fs[p].link)), fuel - 1)
    ELSE p

realpath(fs, p) == FollowLinks(fs, p, Cardinality(AllPaths))

\* Attributes.from_stat(os.lstat(p)): the fields that vary in the model
\* (st_ino, st_dev, st_nlink, st_uid, st_gid and st_ctime_ns are constant).
from_stat(f) ==
    [st_mode |-> f.st_mode,
     st_size |-> IF S_ISLNK(f.st_mode) THEN Len(Val(f.link)) ELSE Len(f.data),
     st_mtime_ns |-> f.st_mtime_ns,
     st_atime_ns |-> f.st_atime_ns]

\* An as_readonly that leaves the mode as it is.
as_readonly_SameMode(attr) == attr

\* Attributes.as_readonly: the mode with S_IWUSR | S_IWGRP | S_IWOTH removed.
as_readonly(attr) ==
    [attr EXCEPT !.st_mode =
        ClearBit(ClearBit(ClearBit(@, S_IWUSR), S_IWGRP), S_IWOTH)]

Metadata(attr, link, error) == [attr |-> attr, link |-> link, error |-> error]

\* FileContents.from_data and FileContents.data: the data compressed (an
\* lz4 frame), its sha256 checksum and its length.
lz4_compress(data) == <<"lz4">> \o data
lz4_decompress(frame) == Tail(frame)
sha256(data) == <<"sha256">> \o data

from_data(data) ==
    [compressed_data |-> lz4_compress(data),
     checksum |-> sha256(data),
     size |-> Len(data)]

contents_data(contents) == lz4_decompress(contents.compressed_data)

\* open(path, "rb").read() on the local machine: the data, or the OSError.
ReadResult(ok, data, error) == [ok |-> ok, data |-> data, error |-> error]

\* t is the file the path resolves to.
read_resolved(fs, t) ==
    IF ~Exists(fs, t)
    THEN ReadResult(FALSE, <<>>, Exc("FileNotFoundError", "ENOENT"))
    ELSE IF S_ISLNK(fs[t].st_mode)
    THEN ReadResult(FALSE, <<>>, Exc("OSError", "ELOOP"))
    ELSE IF S_ISDIR(fs[t].st_mode)
    THEN ReadResult(FALSE, <<>>, Exc("IsADirectoryError", "EISDIR"))
    ELSE IF ~HasBit(fs[t].st_mode, S_IRUSR)
    THEN ReadResult(FALSE, <<>>, Exc("PermissionError", "EACCES"))
    ELSE ReadResult(TRUE, fs[t].data, Exc("", ""))

os_read(fs, path) == read_resolved(fs, realpath(fs, path))

---------------------------------------------------------------------------
(* LocalCacheService (service.py).  The service's state is the record      *)
(* [fetched_metadata, fetched_contents, prefetchable_paths]; an operation  *)
(* takes the state and the local file system and gives its return value    *)
(* and the state it leaves.                                                *)

NewService ==
    [fetched_metadata |-> {}, fetched_contents |-> {}, prefetchable_paths |-> None]

\* The metadata os.lstat and os.readlink give for a path.
stat_metadata(fs, path) ==
    IF ~Exists(fs, path)
    THEN Metadata(None, None, Some(Exc("FileNotFoundError", "ENOENT")))
    ELSE Metadata(Some(from_stat(fs[path])),
                  IF S_ISLNK(fs[path].st_mode) THEN fs[path].link ELSE None,
                  None)

\* LocalCacheService.get_metadata
get_metadata(svc, fs, path) ==
    [ret |-> stat_metadata(fs, path),
     svc |-> [svc EXCEPT !.fetched_metadata = @ \cup {path}]]

\* A comparison that takes the access time into account.
significant_meta_WithAtime(meta) == <<meta.attr, meta.error, meta.link>>

\* LocalCacheService._significant_meta
significant_meta(meta) ==
    <<IF IsSome(meta.attr)
      THEN Some([Val(meta.attr) EXCEPT !.st_atime_ns = None])
      ELSE None,
      meta.error,
      meta.link>>

\* LocalCacheService.get_changed_metadata: cached is a function from paths
\* to Metadata; the result is the function of the changed paths.
get_changed_metadata(svc, fs, cached) ==
    LET changed == {p \in DOMAIN cached :
                      significant_meta(stat_metadata(fs, p))
                          # significant_meta(cached[p])}
    IN  [ret |-> [p \in changed |-> stat_metadata(fs, p)],
         svc |-> [svc EXCEPT !.fetched_metadata = @ \cup DOMAIN cached]]

\* LocalCacheService.readfile: ok is FALSE when open() raised.
\* r is what reading the file gave.
readfile_result(svc, path, r) ==
    IF r.ok
    THEN [ok |-> TRUE, ret |-> Some(from_data(r.data)), error |-> r.error,
          svc |-> [svc EXCEPT !.fetched_contents = @ \cup {path}]]
    ELSE [ok |-> FALSE, ret |-> None, error |-> r.error, svc |-> svc]

readfile(svc, fs, path) == readfile_result(svc, path, os_read(fs, path))

\* LocalCacheService.readfile_conditional: None when the checksum is the same.
\* r is what readfile gave.
conditional_result(r, checksum) ==
    IF r.ok /\ checksum = Val(r.ret).checksum
    THEN [r EXCEPT !.ret = None]
    ELSE r

readfile_conditional(svc, fs, path, checksum) ==
    conditional_result(readfile(svc, fs, path), checksum)

\* A service for which every path may be prefetched.
is_prefetchable_Always(svc, path) == TRUE

\* LocalCacheService._is_prefetchable
is_prefetchable(svc, path) ==
    IF IsNone(svc.prefetchable_paths) THEN TRUE
    ELSE \E i \in 1..Len(Val(svc.prefetchable_paths)) :
            CommonPathIs(path, Val(svc.prefetchable_paths)[i])

\* os.path.isabs
isabs(p) == p # <<>> /\ p[1] = "/"

\* LocalCacheService._is_prefetchable raising the ValueError of
\* os.path.commonpath: any() comes to a prefetchable path that is relative
\* where the path is absolute (or the reverse) before one that matches.
prefetchable_raises(svc, path) ==
    /\ IsSome(svc.prefetchable_paths)
    /\ \E i \in 1..Len(Val(svc.prefetchable_paths)) :
          /\ isabs(Val(svc.prefetchable_paths)[i]) # isabs(path)
          /\ \A j \in 1..(i - 1) :
                /\ isabs(Val(svc.prefetchable_paths)[j]) = isabs(path)
                /\ ~CommonPathIs(path, Val(svc.prefetchable_paths)[j])

\* LocalCacheService.set_prefetchable_paths
set_prefetchable_paths(svc, paths) == [svc EXCEPT !.prefetchable_paths = paths]

\* LocalCacheService.mark_previously_fetched_contents
mark_previously_fetched_contents(svc, paths) ==
    [svc EXCEPT !.fetched_contents = @ \cup paths]

---------------------------------------------------------------------------
(* The prefetch rules (prefetching.py).  A suggestion is [path, contents]. *)

Suggestion(path, contents) == [path |-> path, contents |-> contents]

\* prefetching.symlink_target
symlink_target(fs, path) ==
    IF Exists(fs, path) /\ S_ISLNK(fs[path].st_mode)
    THEN <<Suggestion(LinkPath(path, Val(fs[path].link)), FALSE)>>
    ELSE <<>>

\* os.path.isfile: a regular file, symlinks followed.
is_regular(fs, t) == Exists(fs, t) /\ S_ISREG(fs[t].st_mode)
isfile(fs, path) == is_regular(fs, realpath(fs, path))

\* glob.glob(directory + "/" + stem + "*")
glob_prefix(fs, directory, stem) ==
    SetToSeq({q \in DOMAIN fs :
                /\ fs[q].exists
                /\ q # directory
                /\ normpath(pathjoin(q, <<".", ".">>)) = directory
                /\ StartsWith(basename(q), stem)})

\* prefetching.python_pycache
\* The suggestions of python_pycache for the __pycache__ directory found
\* and the compiled files globbed in it.
pycache_suggestions(path, pycache_path, cache_files) ==
    <<Suggestion(path, TRUE), Suggestion(pycache_path, FALSE)>>
        \o [i \in 1..Len(cache_files) |-> Suggestion(cache_files[i], TRUE)]

pycache_glob(fs, path, pycache_path) ==
    pycache_suggestions(path, pycache_path,
        glob_prefix(fs, pycache_path,
                    StrReplace(basename(path), <<".", "p", "y">>, <<>>)))

python_pycache(fs, path) ==
    IF EndsWith(path, <<".", "p", "y">>) /\ isfile(fs, path)
    THEN pycache_glob(fs, path,
             normpath(pathjoin(pathjoin(path, <<".", ".">>),
                               <<"_", "_", "p", "y", "c", "a", "c", "h", "e", "_", "_">>)))
    ELSE <<>>

\* prefetching.compiled_perl_module
compiled_perl_module(fs, path) ==
    IF EndsWith(path, <<".", "p", "m", "c">>)
    THEN <<Suggestion(StrReplace(path, <<".", "p", "m", "c">>, <<".", "p", "m">>), TRUE)>>
    ELSE <<>>

\* prefetching.file_access
file_access(fs, path) ==
    symlink_target(fs, path) \o python_pycache(fs, path)
        \o compiled_perl_module(fs, path)

\* prefetching.is_elf_binary: "ELF" in the output of file(1), which prints
\* the path and a description of the data; the data of an ELF file starts
\* with the byte "E" here.
elf_data(r) == r.ok /\ r.data # <<>> /\ r.data[1] = "E"
is_elf_binary(fs, path) ==
    IF Contains(path, <<"E", "L", "F">>) THEN TRUE
    ELSE elf_data(os_read(fs, path))

\* prefetching.read_elf_dependencies: the paths ldd(1) prints for the file.
\* An ELF file of the model names the one shared library it is linked
\* against after its first byte; it has no dependency when it names none.
ldd_paths(r) == IF Len(r.data) > 1 THEN <<Tail(r.data)>> ELSE <<>>
read_elf_dependencies(fs, path) == ldd_paths(os_read(fs, path))

\* prefetching.elf_dependencies
\* deps is the list read_elf_dependencies gave.
dependency_suggestions(fs, deps) ==
    [i \in 1..Len(deps) |-> Suggestion(deps[i], FALSE)]
        \o [i \in 1..Len(deps) |-> Suggestion(realpath(fs, deps[i]), TRUE)]

elf_dependencies(fs, path) ==
    IF is_elf_binary(fs, path)
    THEN dependency_suggestions(fs, read_elf_dependencies(fs, path))
    ELSE <<>>

\* prefetching.file_read
file_read(fs, path) == elf_dependencies(fs, path)

---------------------------------------------------------------------------
(* Prefetch resolution (service.py).                                       *)

PrefetchEntry(path, metadata, contents) ==
    [path |-> path, metadata |-> metadata, contents |-> contents]

\* The distinct paths of a list of suggestions, in order of first appearance.
RECURSIVE SuggestedPaths(_, _)
SuggestedPaths(suggestions, seen) ==
    IF suggestions = <<>> THEN seen
    ELSE SuggestedPaths(Tail(suggestions),
                        IF Head(suggestions).path \in Range(seen)
                        THEN seen
                        ELSE Append(seen, Head(suggestions).path))

\* The loop of LocalCacheService._resolve_prefetches over the grouped paths.
\* Whether some suggestion for the path asks for its contents.
prefetch_contents(suggestions, path) ==
    \E i \in 1..Len(suggestions) :
        suggestions[i].path = path /\ suggestions[i].contents

\* A resolution that passes over nothing but what may not be prefetched.
skip_prefetch_OutsideOnly(svc, path, contents) == ~is_prefetchable(svc, path)

\* The paths _resolve_prefetches passes over.
skip_prefetch(svc, path, contents) ==
    IF ~is_prefetchable(svc, path) THEN TRUE
    ELSE IF contents THEN path \in svc.fetched_contents
    ELSE path \in svc.fetched_metadata

\* One prefetched path: m is what get_metadata gave, r what readfile gave
\* after it (consulted only when the contents are wanted and the metadata
\* has no error).  The result is the PrefetchEntry and the service after.
prefetch_one(path, contents, m, r) ==
    IF contents /\ IsNone(m.ret.error)
    THEN [entry |-> PrefetchEntry(path, m.ret, IF r.ok THEN r.ret ELSE None),
          svc |-> r.svc]
    ELSE [entry |-> PrefetchEntry(path, m.ret, None), svc |-> m.svc]

prefetch_path(svc, fs, path, contents) ==
    prefetch_one(path, contents, get_metadata(svc, fs, path),
                 readfile([svc EXCEPT !.fetched_metadata = @ \cup {path}], fs, path))

\* The loop of LocalCacheService._resolve_prefetches over the grouped paths;
\* ok is FALSE when _is_prefetchable raised on the way.
RECURSIVE ResolveLoop(_, _, _, _, _)
RECURSIVE ResolveNext(_, _, _, _, _)
ResolveLoop(svc, fs, suggestions, paths, prefetches) ==
    IF paths = <<>> THEN [ok |-> TRUE, ret |-> prefetches, svc |-> svc]
    ELSE IF prefetchable_raises(svc, Head(paths))
    THEN [ok |-> FALSE, ret |-> prefetches, svc |-> svc]
    ELSE IF skip_prefetch(svc, Head(paths),
                          prefetch_contents(suggestions, Head(paths)))
    THEN ResolveLoop(svc, fs, suggestions, Tail(paths), prefetches)
    ELSE ResolveNext(fs, suggestions, paths, prefetches,
                     prefetch_path(svc, fs, Head(paths),
                                   prefetch_contents(suggestions, Head(paths))))

\* The loop goes on with what one prefetched path left.
ResolveNext(fs, suggestions, paths, prefetches, one) ==
    ResolveLoop(one.svc, fs, suggestions, Tail(paths),
                Append(prefetches, one.entry))

\* LocalCacheService._resolve_prefetches
resolve_prefetches(svc, fs, suggestions) ==
    ResolveLoop(svc, fs, suggestions, SuggestedPaths(suggestions, <<>>), <<>>)

\* LocalCacheService.get_metadata_prefetch: ret is the metadata, prefetches
\* the list of PrefetchEntry.
\* base is what get_metadata gave, res what _resolve_prefetches gave.
\* A get_metadata_prefetch that returns what was resolved before a failure.
with_prefetches_Partial(base, res) ==
    [ret |-> base.ret, prefetches |-> res.ret, warned |-> ~res.ok,
     svc |-> res.svc]

\* warned tells that the except branch ran (it logs a warning).
with_prefetches(base, res) ==
    [ret |-> base.ret, prefetches |-> IF res.ok THEN res.ret ELSE <<>>,
     warned |-> ~res.ok, svc |-> res.svc]

get_metadata_prefetch(svc, fs, path) ==
    with_prefetches(get_metadata(svc, fs, path),
        resolve_prefetches([svc EXCEPT !.fetched_metadata = @ \cup {path}],
                           fs, file_access(fs, path)))

\* LocalCacheService.readfile_prefetch
\* base is what readfile gave, res what _resolve_prefetches gave after it.
read_with_prefetches(svc, base, res) ==
    IF base.ok
    THEN [ok |-> TRUE, ret |-> base.ret, error |-> base.error,
          prefetches |-> IF res.ok THEN res.ret ELSE <<>>,
          warned |-> ~res.ok, svc |-> res.svc]
    ELSE [ok |-> FALSE, ret |-> None, error |-> base.error,
          prefetches |-> <<>>, warned |-> FALSE, svc |-> svc]

readfile_prefetch(svc, fs, path) ==
    read_with_prefetches(svc, readfile(svc, fs, path),
        resolve_prefetches([svc EXCEPT !.fetched_contents = @ \cup {path}],
                           fs, file_read(fs, path)))

---------------------------------------------------------------------------
(* The cache's data (cache.py).                                            *)

\* ContentsBlob: storage names the blob file (the n-th uuid4 name drawn).
ContentsBlob(storage, size, checksum, dirty) ==
    [storage |-> storage, size |-> size, checksum |-> checksum, dirty |-> dirty]

CacheEntry(path, meta, last_access, last_update, contents) ==
    [path |-> path, meta |-> meta, last_access |-> last_access,
     last_update |-> last_update, contents |-> contents]

\* A comparison that also takes an entry updated at the same time.
newer_than_OrEqual(self, other) ==
    IsNone(other) \/ self.last_update >= Val(other).last_update

\* CacheEntry.newer_than: other is an Optional entry.
newer_than(self, other) ==
    IsNone(other) \/ self.last_update > Val(other).last_update

\* RemoteCache._entry_key: f"{machine_id}:{path}"
\* A key that leaves the machine id out.
entry_key_PathOnly(machine_id, path) == <<":">> \o path

\* RemoteCache._entry_key
entry_key(machine_id, path) == machine_id \o <<":">> \o path

\* dict.get
Get(d, k) == IF k \in DOMAIN d THEN Some(d[k]) ELSE None
\* d[k] = v on a dict, and del d[k]
Put(d, k, v) == [x \in DOMAIN d \cup {k} |-> IF x = k THEN v ELSE d[x]]
Del(d, k) == [x \in DOMAIN d \ {k} |-> d[x]]

\* RemoteCache.count and RemoteCache.size
RECURSIVE SumSizes(_, _)
SumSizes(d, keys) ==
    IF keys = {} THEN 0
    ELSE LET k == CHOOSE x \in keys : TRUE
         IN  (IF IsSome(d[k].contents) THEN Val(d[k].contents).size ELSE 0)
             + SumSizes(d, keys \ {k})

count(d) == Cardinality(DOMAIN d)
size(d) == SumSizes(d, DOMAIN d)

\* Encoding.dump_json / load_json (rpc/__init__.py): a dataclass becomes a
\* tagged dict of its fields, an exception a tagged dict of its class name
\* and args; loading rebuilds a registered dataclass by name and an
\* exception by looking its name up among the builtins.
BuiltinExceptions ==
    {"Exception", "OSError", "FileNotFoundError", "PermissionError",
     "IsADirectoryError", "ValueError", "AttributeError", "TypeError"}

serialize_exception(exc) == [exception |-> [name |-> exc.name, args |-> exc.args]]

deserialize_exception(obj) ==
    IF obj.exception.name \in BuiltinExceptions
    THEN [name |-> obj.exception.name, args |-> obj.exception.args]
    ELSE [name |-> "Exception", args |-> obj.exception.args]

serialize_dataclass(type, data) == [dataclass |-> type, data |-> data]

SerOpt(o, f(_)) == IF IsSome(o) THEN Some(f(Val(o))) ELSE None

serialize_attributes(a) == serialize_dataclass("Attributes", a)
serialize_metadata(m) ==
    serialize_dataclass("Metadata",
        [attr |-> SerOpt(m.attr, serialize_attributes),
         link |-> m.link,
         error |-> SerOpt(m.error, serialize_exception)])
serialize_blob(b) == serialize_dataclass("ContentsBlob", b)
serialize_entry(e) ==
    serialize_dataclass("CacheEntry",
        [path |-> e.path, meta |-> serialize_metadata(e.meta),
         last_access |-> e.last_access, last_update |-> e.last_update,
         contents |-> SerOpt(e.contents, serialize_blob)])

deserialize_attributes(obj) == obj.data
deserialize_metadata(obj) ==
    Metadata(SerOpt(obj.data.attr, deserialize_attributes),
             obj.data.link,
             SerOpt(obj.data.error, deserialize_exception))
\* A decoder that marks the contents it reads as dirty.
deserialize_blob_Dirty(obj) ==
    ContentsBlob(obj.data.storage, obj.data.size, obj.data.checksum, TRUE)

deserialize_blob(obj) ==
    ContentsBlob(obj.data.storage, obj.data.size, obj.data.checksum, obj.data.dirty)
deserialize_entry(obj) ==
    CacheEntry(obj.data.path, deserialize_metadata(obj.data.meta),
               obj.data.last_access, obj.data.last_update,
               SerOpt(obj.data.contents, deserialize_blob))

dump_json(d) == [k \in DOMAIN d |-> serialize_entry(d[k])]
load_json(text) == [k \in DOMAIN text |-> deserialize_entry(text[k])]

\* A save that keeps its own entries only.
merge_disk_entries_MemoryOnly(entries, disk_entries) == entries

\* The merge loop of RemoteCache.save.
merge_disk_entries(entries, disk_entries) ==
    [k \in DOMAIN entries \cup DOMAIN disk_entries |->
        IF k \in DOMAIN disk_entries /\ newer_than(disk_entries[k], Get(entries, k))
        THEN disk_entries[k]
        ELSE entries[k]]

\* The orders list.sort(key=last_access) can leave the items of the dict
\* in: sorted by last_access, items of equal last_access in the order of
\* the dict, which is any order here.
RECURSIVE Orderings(_)
Orderings(S) ==
    IF S = {} THEN {<<>>}
    ELSE UNION {{<<x>> \o rest : rest \in Orderings(S \ {x})} : x \in S}

\* The items sorted with the most recently accessed first.
SortedByLastAccess_NewestFirst(d) ==
    {o \in Orderings(DOMAIN d) :
        \A i \in 1..Len(o) : \A j \in 1..Len(o) :
            i < j => d[o[i]].last_access >= d[o[j]].last_access}

\* oldest_entries after the sort by last_access: list.sort is stable, so
\* entries of equal last_access keep the dict's order, which is any order
\* here.
SortedByLastAccess(d) ==
    {o \in Orderings(DOMAIN d) :
        \A i \in 1..Len(o) : \A j \in 1..Len(o) :
            i < j => d[o[i]].last_access <= d[o[j]].last_access}

\* The loop of RemoteCache._lru_cleanup over the sorted items.
RECURSIVE LruLoop(_, _, _, _, _, _)
LruLoop(d, oldest, entry_count, contents_size, max_entries, max_size) ==
    IF oldest = <<>> THEN d
    ELSE
      LET key == Head(oldest)
          entry == d[key]
          drop == contents_size > max_size /\ IsSome(entry.contents)
          remove == entry_count > max_entries
      IN  LruLoop(IF remove THEN Del(d, key)
                  ELSE IF drop THEN [d EXCEPT ![key].contents = None]
                  ELSE d,
                  Tail(oldest),
                  IF remove THEN entry_count - 1 ELSE entry_count,
                  IF drop THEN contents_size - Val(entry.contents).size
                  ELSE contents_size,
                  max_entries, max_size)

\* RemoteCache._lru_cleanup, for one order of the sorted list.
lru_cleanup(d, oldest, max_entries, max_size) ==
    LruLoop(d, oldest, count(d), size(d), max_entries, max_size)

\* RemoteCache._garbage_collect_blobs: the contents directory afterwards.
garbage_collect_blobs(d, dir) ==
    LET referenced == {Val(d[k].contents).storage :
                          k \in {x \in DOMAIN d : IsSome(d[x].contents)}}
    IN  [b \in DOMAIN dir \cap referenced |-> dir[b]]

\* RemoteCache._save_contents: the blob file written and its ContentsBlob.
save_contents(contents, storage) ==
    ContentsBlob(storage, contents.size, contents.checksum, FALSE)

\* A cache that starts the entry of every prefetch afresh.
store_prefetch_Reset(st, key, prefetch, now) ==
    [st EXCEPT !.entries =
        Put(@, key, CacheEntry(prefetch.path, prefetch.metadata, 0, now, None))]

\* A cache that stores no prefetched entry.
store_prefetch_Nothing(st, key, prefetch, now) == st

\* A cache that saves prefetched contents whatever the entry holds.
store_prefetch_Overwrite(st, key, prefetch, now) ==
    LET created == IF key \in DOMAIN st.entries THEN st.entries
                   ELSE Put(st.entries, key,
                            CacheEntry(prefetch.path, prefetch.metadata, 0, now, None))
    IN  IF IsSome(prefetch.contents)
        THEN [entries |-> [created EXCEPT ![key].contents =
                              Some(save_contents(Val(prefetch.contents), st.uuid + 1))],
              dir |-> Put(st.dir, st.uuid + 1, contents_data(Val(prefetch.contents))),
              uuid |-> st.uuid + 1]
        ELSE [st EXCEPT !.entries = created]

\* RemoteCache._try_store_prefetches.  st is [entries, dir, uuid]: the
\* cache's entries, the contents directory and the number of blob names
\* drawn so far; held is the set of keys whose lock is taken (the caller's
\* own key among them), now is time.time().
store_prefetch(st, key, prefetch, now) ==
    LET created == IF key \in DOMAIN st.entries THEN st.entries
                   ELSE Put(st.entries, key,
                            CacheEntry(prefetch.path, prefetch.metadata, 0, now, None))
    IN  IF /\ IsSome(prefetch.contents)
           /\ (IsNone(created[key].contents) \/ Val(created[key].contents).dirty)
        THEN [entries |-> [created EXCEPT ![key].contents =
                              Some(save_contents(Val(prefetch.contents), st.uuid + 1))],
              dir |-> Put(st.dir, st.uuid + 1, contents_data(Val(prefetch.contents))),
              uuid |-> st.uuid + 1]
        ELSE [st EXCEPT !.entries = created]

RECURSIVE try_store_prefetches(_, _, _, _, _, _)
try_store_prefetches(st, machine_id, held, path, prefetches, now) ==
    IF prefetches = <<>> THEN st
    ELSE IF /\ entry_key(machine_id, Head(prefetches).path) \in held
            /\ Head(prefetches).path # path
    THEN try_store_prefetches(st, machine_id, held, path, Tail(prefetches), now)
    ELSE try_store_prefetches(
             store_prefetch(st, entry_key(machine_id, Head(prefetches).path),
                            Head(prefetches), now),
             machine_id, held, path, Tail(prefetches), now)

---------------------------------------------------------------------------
(* The state.                                                              *)

\* Two RemoteCache objects (two outrun sessions on the remote machine)
\* that share one cache directory.
Sessions == {1, 2}
Threads == 1..NumThreads

\* Machine ids (get_app_specific_machine_id gives 32 hex characters; two
\* characters here).
MachineA == <<"m", "a">>
MachineB == <<"m", "b">>
Machines == {MachineA, MachineB}

VARIABLES
    clock,          \* time.time()
    files,          \* files[m]: the file system of the local machine m
    changes,        \* number of changes made to local files so far
    svc,            \* svc[s]: the LocalCacheService session s talks to
    config,         \* config[s]: machine_id, prefetch, max_entries, max_size
    entries,        \* entries[s]: RemoteCache._entries
    entry_locks,    \* entry_locks[s]: the keys locked in _entry_locks, by owner
    phase,          \* phase[s]: "new", "run", "saving" or "done"
    main,           \* main[s]: the thread that runs load, sync and save
    thr,            \* thr[s][t]: a file system thread inside the cache
    index,          \* the cache directory's index.json: None or its text
    index_torn,     \* index.json was opened for writing and holds only the
                    \* head of an encoding
    contents_dir,   \* the cache directory's contents/: blob name -> data
    index_lock,     \* holder of index.lock (0: nobody)
    uuid,           \* number of uuid4 blob names drawn so far
    \* History of the run, read by the properties only:
    meta_fetches,   \* meta_fetches[s][p]: get_metadata(_prefetch) calls sent
    read_calls,     \* read_calls[s][p]: readfile(_prefetch/_conditional) calls sent
    last_ret,       \* what the last returning cache call returned
    answers,        \* answers[s][p]: the outcomes get_metadata gave for p
    served,         \* served[s][p]: the bytes the last open_contents served
    sync_since,     \* sync_since[s]: paths sync changed since they were served
    changed_during, \* changed_during[s]: paths changed locally while s ran
    created_by,     \* created_by[s][p]: how the entry of p came into entries[s]
    waited,         \* waited[s]: the calls that had to wait for a lock: the
                    \* path, the call and where the holder of the lock was
    saved_entries,  \* the entries the last save wrote
    \* The file system adapter in front of the cache:
    fs_calls,       \* fs_calls[s]: the calls sent to the file system service
    handles,        \* handles[s]: the files open on the file system service
    \* The cache service called directly:
    svc_ret,        \* the last call of the cache service and what it gave
    resolving,      \* resolving[w]: the prefetching call worker w of the
                    \* service is inside, and how far _resolve_prefetches is
    returned,       \* history: the prefetch lists the workers have returned
    \* The RPC client of the remote machine and the RPC server of the local
    \* machine (rpc/__init__.py):
    client_token,   \* Client.token
    socket_pool,    \* socket_pool[t]: the REQ socket of thread t: "none",
                    \* "ready", or "sent" while a request awaits its reply
    calling,        \* calling[t]: the request thread t waits in recv() for
    outcome,        \* outcome[t]: how the last call of thread t ended
    calls,          \* calls[t]: number of calls thread t has made
    strays,         \* number of messages other peers have sent to the server
    requests,       \* the requests queued for the workers, oldest first
    replies,        \* replies[t]: the replies delivered to the socket of t
    workers,        \* workers[w]: "recv", or "stopped" when its loop ended
    dispatched,     \* the (token, function) pairs a service method ran for
    taken,          \* taken[w]: number of requests worker w received
    answered,       \* answered[w]: number of replies worker w sent
    \* The FUSE bindings (filesystem/fuse/__init__.py):
    fuse_ret,       \* the last operation callback and what it gave libfuse
    \* A LockIndex and the threads inside LockIndex.lock (caching/common.py):
    locks,          \* LockIndex._locks: key -> the mutex of the key
    lock_users,     \* LockIndex._lock_users: key -> number of users
    mutexes,        \* the threading.Lock objects made so far: their owners
    frames,         \* frames[t]: the calls of lock() thread t is inside,
                    \* innermost last
    \* The local side of a session (operations/local.py, operations/events.py):
    event_queue,    \* EventQueue._queue: the events posted and not yet taken
    posted,         \* history: every event posted, in the order of posting
    expects,        \* history: the calls of expect and how each one ended
    run,            \* LocalOperations._run: its position, args.cache and
                    \* how it ended
    ssh,            \* the ssh process: "none", "running" or "exited"
    ssh_wrote,      \* history: what ssh has written to its stdout
    pipe,           \* the bytes in the stdout pipe the skimmer has not read
    out_writer,     \* whether _run still holds the write end of the pipe
    skimmer,        \* _run_token_skimmer: its position and its buf
    forwarded,      \* the bytes written to the real stdout
    started         \* the RPC services whose threads were started

cache_vars == <<entries, entry_locks, phase, main, thr>>
disk_vars == <<index, index_torn, contents_dir, index_lock, uuid>>
local_vars == <<files, changes, svc>>
hist_vars == <<meta_fetches, read_calls, last_ret, answers, served, sync_since,
               changed_during, created_by, waited, saved_entries>>
front_vars == <<fs_calls, handles>>
\* What the cache itself never touches.
service_vars == <<svc_ret, resolving, returned>>
client_vars == <<client_token, socket_pool, calling, outcome, calls>>
server_vars == <<workers, dispatched, taken, answered>>
rpc_vars == <<client_vars, strays, requests, replies, server_vars>>
fuse_vars == <<fuse_ret>>
\* The parts of the program around the cache and its services.
lockindex_vars == <<locks, lock_users, mutexes, frames>>
queue_vars == <<event_queue, posted, expects>>
ops_vars == <<queue_vars, run, ssh, ssh_wrote, pipe, out_writer, skimmer,
              forwarded, started>>
ext_vars == <<fuse_vars, lockindex_vars, ops_vars>>
\* The cache, its services and the adapter.
core_vars == <<clock, config, cache_vars, disk_vars, local_vars, hist_vars,
               front_vars, service_vars, rpc_vars>>
aux_vars == <<front_vars, service_vars, rpc_vars, ext_vars>>
vars == <<clock, config, cache_vars, disk_vars, local_vars, hist_vars, aux_vars>>

IdleThread == [pc |-> "idle", path |-> <<>>, force |-> FALSE]
IdleMain == [pc |-> "idle", pending |-> <<>>, merge |-> TRUE]

NoRet ==
    [session |-> 0, op |-> "", path |-> <<>>, ok |-> TRUE,
     meta |-> None, data |-> None, error |-> None]
Ret(s, op, path, ok, meta, data, error) ==
    [session |-> s, op |-> op, path |-> path, ok |-> ok,
     meta |-> meta, data |-> data, error |-> error]

\* A worker of the cache service that is in no prefetching call.
NoResolve == [pc |-> "idle", suggestions |-> <<>>, paths |-> <<>>, prefetches |-> <<>>]

\* The worker threads of the RPC server, and the peers that send to it:
\* the threads of the client, and 0 for any other program that connects.
Workers == {1, 2}
Peers == {0} \cup Threads

\* Server.token, as local.py draws it for the session.
ServerToken == Some("1234")

\* How a call through the client ended: via tells where it ended ("normal",
\* "exception" and "token_error" for the reply received, "timeout" for the
\* recv that timed out, "send" for the send that raised), and then the
\* value returned or the exception raised; name is the function called.
NoOutcome == [via |-> "none", name |-> None, value |-> None, raised |-> None]
Returned(via, value) ==
    [via |-> via, name |-> None, value |-> Some(value), raised |-> None]
Raised(via, exc) ==
    [via |-> via, name |-> None, value |-> None, raised |-> Some(exc)]
Named(o, name) == [o EXCEPT !.name = Some(name)]

\* A call of the cache service: its arguments (the service it found
\* included), whether it returned, the value returned and the prefetches
\* that came with it, and whether prefetching logged a failure.
NoCall ==
    [session |-> 0, op |-> "", arg |-> <<>>, before |-> NewService,
     ok |-> TRUE, ret |-> None, prefetches |-> <<>>, warned |-> FALSE]
Call(s, op, arg, before, ok, ret, prefetches, warned) ==
    [session |-> s, op |-> op, arg |-> arg, before |-> before,
     ok |-> ok, ret |-> ret, prefetches |-> prefetches, warned |-> warned]

\* A callback of the FUSE bindings: its name, what the operation of the
\* file system gave (r), and what the wrapped callback did: the integer it
\* returned to libfuse, or the exception that left it.
NoCallback == [name |-> "", r |-> <<>>, ret |-> None, escaped |-> None]

\* The cacheable paths of a cache that is given none other: ["/"] here.
CacheablePaths == << <<"/">> >>

\* The parameters of RemoteCache.__init__.
ConfigPaths(machine_id, prefetch, max_entries, max_size, cacheable_paths) ==
    [machine_id |-> machine_id, prefetch |-> prefetch,
     max_entries |-> max_entries, max_size |-> max_size,
     cacheable_paths |-> cacheable_paths]

Config(machine_id, prefetch, max_entries, max_size) ==
    ConfigPaths(machine_id, prefetch, max_entries, max_size, CacheablePaths)

\* A cache for which every path is cacheable.
is_cacheable_Always(cacheable_paths, path) == TRUE

\* RemoteCache.is_cacheable
is_cacheable(cacheable_paths, path) ==
    \E i \in 1..Len(cacheable_paths) : CommonPathIs(path, cacheable_paths[i])

Key(s, path) == entry_key(config[s].machine_id, path)
Fs(s) == files[config[s].machine_id]
Held(s) == DOMAIN entry_locks[s]
Active(s) == phase[s] \in {"new", "run"}
AllIdle(s) == \A t \in Threads : thr[s][t].pc = "idle"

\* The state RemoteCache.__init__ leaves, for given configurations and
\* local file systems.
InitState(configs, filesystems) ==
    /\ clock = 0
    /\ files \in filesystems
    /\ changes = 0
    /\ config \in configs
    /\ entries = [s \in Sessions |-> << >>]
    /\ entry_locks = [s \in Sessions |-> << >>]
    /\ phase = [s \in Sessions |-> "new"]
    /\ main = [s \in Sessions |-> IdleMain]
    /\ thr = [s \in Sessions |-> [t \in Threads |-> IdleThread]]
    /\ index = None
    /\ index_torn = FALSE
    /\ contents_dir = << >>
    /\ index_lock = 0
    /\ uuid = 0
    /\ meta_fetches = [s \in Sessions |-> [p \in Paths |-> 0]]
    /\ read_calls = [s \in Sessions |-> [p \in Paths |-> 0]]
    /\ last_ret = NoRet
    /\ answers = [s \in Sessions |-> [p \in Paths |-> {}]]
    /\ served = [s \in Sessions |-> [p \in Paths |-> None]]
    /\ sync_since = [s \in Sessions |-> {}]
    /\ changed_during = [s \in Sessions |-> {}]
    /\ created_by = [s \in Sessions |-> [p \in AllPaths |-> "none"]]
    /\ waited = [s \in Sessions |-> {}]
    /\ saved_entries = << >>
    /\ fs_calls = [s \in Sessions |-> {}]
    /\ handles = [s \in Sessions |-> {}]
    /\ svc_ret = NoCall
    /\ resolving = [w \in Workers |-> NoResolve]
    /\ returned = << >>
    /\ socket_pool = [t \in Threads |-> "none"]
    /\ calling = [t \in Threads |-> None]
    /\ outcome = [t \in Threads |-> NoOutcome]
    /\ calls = [t \in Threads |-> 0]
    /\ strays = 0
    /\ requests = <<>>
    /\ replies = [t \in Peers |-> <<>>]
    /\ workers = [w \in Workers |-> "recv"]
    /\ dispatched = {}
    /\ taken = [w \in Workers |-> 0]
    /\ answered = [w \in Workers |-> 0]
    /\ fuse_ret = NoCallback
    /\ locks = << >>
    /\ lock_users = << >>
    /\ mutexes = << >>
    /\ frames = [t \in Threads |-> << >>]
    /\ event_queue = << >>
    /\ posted = << >>
    /\ expects = << >>
    /\ run = [pc |-> "new", cache |-> FALSE, result |-> None]
    /\ ssh = "none"
    /\ ssh_wrote = None
    /\ pipe = << >>
    /\ out_writer = FALSE
    /\ skimmer = [pc |-> "new", buf |-> << >>]
    /\ forwarded = << >>
    /\ started = {}

\* RemoteCache.__init__ sets the prefetchable paths of the service to the
\* cacheable paths of the cache.
InitWith(configs, filesystems) ==
    /\ InitState(configs, filesystems)
    /\ client_token = ServerToken
    /\ svc = [s \in Sessions |->
                 set_prefetchable_paths(NewService, Some(config[s].cacheable_paths))]

---------------------------------------------------------------------------
(* The wall clock and the local machines.                                  *)

Tick ==
    /\ clock < MaxClock
    /\ clock' = clock + 1
    /\ UNCHANGED <<aux_vars, config, cache_vars, disk_vars, local_vars, hist_vars>>

\* What a change of path p on machine m leaves behind.
LocalChange(m, p, f) ==
    /\ changes < MaxLocalChanges
    /\ changes' = changes + 1
    /\ files' = [files EXCEPT ![m][p] = f]
    /\ changed_during' =
          [s \in Sessions |->
              IF config[s].machine_id = m /\ phase[s] = "run"
              THEN changed_during[s] \cup {p} ELSE changed_during[s]]
    /\ UNCHANGED <<aux_vars, clock, config, cache_vars, disk_vars, svc, meta_fetches,
                   read_calls, last_ret, answers, served, sync_since,
                   created_by, waited, saved_entries>>

\* A program on the local machine rewrites a regular file.
LocalWrite(m, p) ==
    /\ Exists(files[m], p) /\ S_ISREG(files[m][p].st_mode)
    /\ \E d \in Datas \ {files[m][p].data} :
          LocalChange(m, p, [files[m][p] EXCEPT !.data = d,
                                               !.st_mtime_ns = @ + 1])

\* A program on the local machine takes the read permission away.
LocalChmod(m, p) ==
    /\ Exists(files[m], p) /\ files[m][p].st_mode = ModeRegRW
    /\ LocalChange(m, p, [files[m][p] EXCEPT !.st_mode = ModeRegNoRead])

\* A program on the local machine puts a directory in the place of the file.
LocalMkdir(m, p) ==
    /\ Exists(files[m], p) /\ S_ISREG(files[m][p].st_mode)
    /\ LocalChange(m, p, File(TRUE, ModeDir, <<>>, files[m][p].st_mtime_ns + 1, None))

\* A program on the local machine removes the file.
LocalRemove(m, p) ==
    /\ Exists(files[m], p)
    /\ LocalChange(m, p, NoFile)

---------------------------------------------------------------------------
(* RemoteCache.get_metadata.                                               *)

\* What get_metadata makes of the locked entry: it raises the cached error
\* or returns a copy of the metadata with the write permissions stripped.
metadata_result(s, entry) ==
    IF IsSome(entry.meta.error)
    THEN Ret(s, "get_metadata", entry.path, FALSE, None, None, entry.meta.error)
    ELSE IF IsNone(entry.meta.attr)
    THEN Ret(s, "get_metadata", entry.path, FALSE, None, None,
             Some(Exc("ValueError", "entry is missing attributes")))
    ELSE Ret(s, "get_metadata", entry.path, TRUE,
             Some([entry.meta EXCEPT !.attr = Some(as_readonly(Val(entry.meta.attr)))]),
             None, None)

\* The keys _try_store_prefetches has created, marked as prefetched.
MarkCreated(s, before, after, how) ==
    [created_by EXCEPT ![s] =
        [p \in AllPaths |->
            IF Key(s, p) \in DOMAIN after /\ Key(s, p) \notin DOMAIN before
            THEN how ELSE @[p]]]

\* _lock_entry finds the entry: whether the lock of a key can be taken now.
\* A LockIndex whose locks exclude nobody.
CanLock_NoExclusion(s, t, p, waiting) ==
    /\ Active(s)
    /\ IF thr[s][t].pc = "idle" THEN TRUE
       ELSE thr[s][t].pc = waiting /\ thr[s][t].path = p

CanLock(s, t, p, waiting) ==
    /\ Active(s)
    /\ IF thr[s][t].pc = "idle" THEN TRUE
       ELSE thr[s][t].pc = waiting /\ thr[s][t].path = p
    /\ Key(s, p) \notin Held(s)

\* A thread calls get_metadata ("gm_lock") or open_contents ("oc_lock")
\* while another holds the lock of the entry: it waits in LockIndex.lock.
Wait(s, t, p, waiting) ==
    /\ Active(s)
    /\ thr[s][t].pc = "idle"
    /\ Key(s, p) \in Held(s)
    /\ thr' = [thr EXCEPT ![s][t] = [pc |-> waiting, path |-> p, force |-> FALSE]]
    /\ waited' = [waited EXCEPT ![s] =
                     @ \cup {<<p, waiting, thr[s][entry_locks[s][Key(s, p)]].pc>>}]
    /\ UNCHANGED <<aux_vars, clock, config, entries, entry_locks, phase, main, disk_vars,
                   local_vars, meta_fetches, read_calls, last_ret, answers,
                   served, sync_since, changed_during, created_by, saved_entries>>

\* get_metadata of a path that has an entry: _lock_entry refreshes
\* last_access and the call returns at once.
GetMetadataHit(s, t, p) ==
    LET key == Key(s, p) IN
    /\ CanLock(s, t, p, "gm_lock")
    /\ key \in DOMAIN entries[s]
    /\ entries' = [entries EXCEPT ![s][key].last_access = clock]
    /\ thr' = [thr EXCEPT ![s][t] = IdleThread]
    /\ last_ret' = metadata_result(s, entries[s][key])
    /\ answers' = [answers EXCEPT ![s][p] = @ \cup {<<last_ret'.meta, last_ret'.error>>}]
    /\ phase' = [phase EXCEPT ![s] = "run"]
    /\ UNCHANGED <<aux_vars, clock, config, entry_locks, main, disk_vars, local_vars,
                   meta_fetches, read_calls, served, sync_since, changed_during,
                   created_by, waited, saved_entries>>

\* The entry a metadata reply installs, with the prefetched entries stored
\* after it: the [entries, dir, uuid] this leaves.
install_entry(s, path, reply) ==
    try_store_prefetches(
        [entries |-> Put(entries[s], Key(s, path),
                         CacheEntry(path, reply.ret, clock, clock, None)),
         dir |-> contents_dir, uuid |-> uuid],
        config[s].machine_id, Held(s), path,
        IF config[s].prefetch THEN reply.prefetches ELSE <<>>, clock)

\* m is what the service's get_metadata gave.
plain_reply(m) == [ret |-> m.ret, prefetches |-> <<>>, svc |-> m.svc]

\* The reply of the metadata call _lock_entry sends for a missing entry.
metadata_reply(s, path) ==
    IF config[s].prefetch
    THEN get_metadata_prefetch(svc[s], Fs(s), path)
    ELSE plain_reply(get_metadata(svc[s], Fs(s), path))

\* get_metadata of a path without entry: _lock_entry takes the lock and
\* sends get_metadata or get_metadata_prefetch.
GetMetadataMiss(s, t, p) ==
    LET key == Key(s, p) IN
    /\ CanLock(s, t, p, "gm_lock")
    /\ key \notin DOMAIN entries[s]
    /\ meta_fetches[s][p] < MaxCount
    /\ entry_locks' = [entry_locks EXCEPT ![s] = Put(@, key, t)]
    /\ thr' = [thr EXCEPT ![s][t] = [pc |-> "gm_rpc", path |-> p, force |-> FALSE]]
    /\ meta_fetches' = [meta_fetches EXCEPT ![s][p] = @ + 1]
    /\ phase' = [phase EXCEPT ![s] = "run"]
    /\ UNCHANGED <<aux_vars, clock, config, entries, main, disk_vars, local_vars,
                   read_calls, last_ret, answers, served, sync_since,
                   changed_during, created_by, waited, saved_entries>>

\* The reply is there and the entry installed (st): the call returns and
\* the lock is released.
GmInstalled(s, t, p, svc_after, st) ==
    /\ st.uuid <= MaxBlobs
    /\ svc' = [svc EXCEPT ![s] = svc_after]
    /\ entries' = [entries EXCEPT ![s] = st.entries]
    /\ contents_dir' = st.dir
    /\ uuid' = st.uuid
    /\ entry_locks' = [entry_locks EXCEPT ![s] = Del(@, Key(s, p))]
    /\ thr' = [thr EXCEPT ![s][t] = IdleThread]
    /\ last_ret' = metadata_result(s, entries'[s][Key(s, p)])
    /\ answers' = [answers EXCEPT ![s][p] = @ \cup {<<last_ret'.meta, last_ret'.error>>}]
    /\ created_by' = [MarkCreated(s, entries[s], entries'[s], "prefetch")
                        EXCEPT ![s][p] = "fetch"]
    /\ UNCHANGED <<aux_vars, clock, config, phase, main, index, index_torn, index_lock, files, changes,
                   meta_fetches, read_calls, served, sync_since, changed_during,
                   waited, saved_entries>>

GmReplied(s, t, p, reply) ==
    GmInstalled(s, t, p, reply.svc, install_entry(s, p, reply))

\* The reply arrives: the entry is installed, prefetches are stored, the
\* call returns and the lock is released.
GmReturn(s, t) ==
    /\ thr[s][t].pc = "gm_rpc"
    /\ GmReplied(s, t, thr[s][t].path, metadata_reply(s, thr[s][t].path))

---------------------------------------------------------------------------
(* RemoteCache.open_contents.                                              *)

\* An open_contents that takes dirty contents as they are.
needs_update_MissingOnly(entry) == IsNone(entry.contents)

\* An open_contents that updates the contents whatever it finds.
needs_update_Always(entry) == TRUE

\* The test at the head of open_contents.
needs_update(entry) == IsNone(entry.contents) \/ Val(entry.contents).dirty

\* Whether os.open finds the blob file of the entry's contents.
blob_exists(entry, dir) == Val(entry.contents).storage \in DOMAIN dir

\* The thread after the head of open_contents: it sends a read call when
\* the contents have to be updated and goes on to os.open otherwise.
after_lock(entry, p) ==
    [pc |-> IF needs_update(entry) THEN "oc_read_rpc" ELSE "oc_open",
     path |-> p, force |-> FALSE]

\* open_contents of a path that has an entry.
OpenContentsHit(s, t, p) ==
    LET key == Key(s, p) IN
    /\ CanLock(s, t, p, "oc_lock")
    /\ key \in DOMAIN entries[s]
    /\ read_calls[s][p] < MaxCount
    /\ entries' = [entries EXCEPT ![s][key].last_access = clock]
    /\ entry_locks' = [entry_locks EXCEPT ![s] = Put(@, key, t)]
    /\ thr' = [thr EXCEPT ![s][t] = after_lock(entries[s][key], p)]
    /\ read_calls' = [read_calls EXCEPT ![s][p] =
                        IF needs_update(entries[s][key]) THEN @ + 1 ELSE @]
    /\ phase' = [phase EXCEPT ![s] = "run"]
    /\ UNCHANGED <<aux_vars, clock, config, main, disk_vars, local_vars, meta_fetches,
                   last_ret, answers, served, sync_since, changed_during,
                   created_by, waited, saved_entries>>

\* open_contents of a path without entry: _lock_entry sends the metadata
\* call first.
OpenContentsMiss(s, t, p) ==
    LET key == Key(s, p) IN
    /\ CanLock(s, t, p, "oc_lock")
    /\ key \notin DOMAIN entries[s]
    /\ meta_fetches[s][p] < MaxCount
    /\ read_calls[s][p] < MaxCount
    /\ entry_locks' = [entry_locks EXCEPT ![s] = Put(@, key, t)]
    /\ thr' = [thr EXCEPT ![s][t] = [pc |-> "oc_meta_rpc", path |-> p, force |-> FALSE]]
    /\ meta_fetches' = [meta_fetches EXCEPT ![s][p] = @ + 1]
    /\ phase' = [phase EXCEPT ![s] = "run"]
    /\ UNCHANGED <<aux_vars, clock, config, entries, main, disk_vars, local_vars,
                   read_calls, last_ret, answers, served, sync_since,
                   changed_during, created_by, waited, saved_entries>>

\* The metadata reply is there and the entry installed (st).
OcInstalled(s, t, p, svc_after, st) ==
    /\ st.uuid <= MaxBlobs
    /\ svc' = [svc EXCEPT ![s] = svc_after]
    /\ entries' = [entries EXCEPT ![s] = st.entries]
    /\ contents_dir' = st.dir
    /\ uuid' = st.uuid
    /\ thr' = [thr EXCEPT ![s][t] = after_lock(entries'[s][Key(s, p)], p)]
    /\ read_calls' = [read_calls EXCEPT ![s][p] =
                        IF needs_update(entries'[s][Key(s, p)]) THEN @ + 1 ELSE @]
    /\ created_by' = [MarkCreated(s, entries[s], entries'[s], "prefetch")
                        EXCEPT ![s][p] = "fetch"]
    /\ UNCHANGED <<aux_vars, clock, config, entry_locks, phase, main, index, index_torn, index_lock,
                   files, changes, meta_fetches, last_ret, answers, served,
                   sync_since, changed_during, waited, saved_entries>>

OcMetaReplied(s, t, p, reply) ==
    OcInstalled(s, t, p, reply.svc, install_entry(s, p, reply))

\* The metadata reply arrives inside open_contents.
OcMetaReturn(s, t) ==
    /\ thr[s][t].pc = "oc_meta_rpc"
    /\ OcMetaReplied(s, t, thr[s][t].path, metadata_reply(s, thr[s][t].path))

\* r is what readfile or readfile_conditional gave.
read_only_reply(r) ==
    [ok |-> r.ok, ret |-> r.ret, error |-> r.error, prefetches |-> <<>>,
     svc |-> r.svc]

\* The reply of the read call _update_contents sends: ok is FALSE when the
\* call raised, ret is None when readfile_conditional found the checksum
\* unchanged.
read_reply(s, entry, force) ==
    IF ~force /\ IsSome(entry.contents)
    THEN read_only_reply(readfile_conditional(svc[s], Fs(s), entry.path,
                                              Val(entry.contents).checksum))
    ELSE IF config[s].prefetch
    THEN readfile_prefetch(svc[s], Fs(s), entry.path)
    ELSE read_only_reply(readfile(svc[s], Fs(s), entry.path))

\* _save_contents of the contents read, after the prefetches were stored
\* (st1).
store_contents(st1, key, contents) ==
    [entries |-> [st1.entries EXCEPT ![key].contents =
                     Some(save_contents(contents, st1.uuid + 1))],
     dir |-> Put(st1.dir, st1.uuid + 1, contents_data(contents)),
     uuid |-> st1.uuid + 1]

\* RemoteCache._update_contents once the reply is there: the [entries,
\* dir, uuid] it leaves.  Prefetches are stored before the contents.
update_contents(s, key, reply) ==
    IF IsNone(reply.ret)
    THEN [entries |-> [entries[s] EXCEPT ![key].contents =
                          Some([Val(@) EXCEPT !.dirty = FALSE])],
          dir |-> contents_dir, uuid |-> uuid]
    ELSE store_contents(
             try_store_prefetches(
                 [entries |-> entries[s], dir |-> contents_dir, uuid |-> uuid],
                 config[s].machine_id, Held(s), entries[s][key].path,
                 reply.prefetches, clock),
             key, Val(reply.ret))

\* The read succeeded and the contents are updated (st): the thread goes
\* on to os.open.
OcUpdated(s, t, svc_after, st) ==
    /\ st.uuid <= MaxBlobs
    /\ svc' = [svc EXCEPT ![s] = svc_after]
    /\ entries' = [entries EXCEPT ![s] = st.entries]
    /\ contents_dir' = st.dir
    /\ uuid' = st.uuid
    /\ thr' = [thr EXCEPT ![s][t].pc = "oc_open"]
    /\ created_by' = MarkCreated(s, entries[s], entries'[s], "prefetch")
    /\ UNCHANGED <<aux_vars, entry_locks, last_ret>>

\* The read raised: open_contents raises the same and the lock is released.
OcRaised(s, t, p, error) ==
    /\ entry_locks' = [entry_locks EXCEPT ![s] = Del(@, Key(s, p))]
    /\ thr' = [thr EXCEPT ![s][t] = IdleThread]
    /\ last_ret' = Ret(s, "open_contents", p, FALSE, None, None,
                       Some(deserialize_exception(serialize_exception(error))))
    /\ UNCHANGED <<aux_vars, svc, entries, contents_dir, uuid, created_by>>

OcReadReplied(s, t, p, reply) ==
    /\ IF reply.ok
       THEN OcUpdated(s, t, reply.svc, update_contents(s, Key(s, p), reply))
       ELSE OcRaised(s, t, p, reply.error)
    /\ UNCHANGED <<aux_vars, clock, config, phase, main, index, index_torn, index_lock, files, changes,
                   meta_fetches, read_calls, answers, served, sync_since,
                   changed_during, waited, saved_entries>>

\* The read reply arrives: the call raises what the read raised, or the
\* contents are updated and the thread goes on to os.open.
OcReadReturn(s, t) ==
    /\ thr[s][t].pc = "oc_read_rpc"
    /\ OcReadReplied(s, t, thr[s][t].path,
                     read_reply(s, entries[s][Key(s, thr[s][t].path)],
                                thr[s][t].force))

\* The flags of os.open, as the set of the names that are set; O_RDONLY
\* is 0.
O_RDONLY == {}
OpenFlags == {O_RDONLY, {"O_RDWR"}, {"O_WRONLY", "O_TRUNC"}}

\* os.open(storage, flags) of a blob file that exists: the bytes the file
\* holds afterwards.  The blob files are written by _save_contents with
\* open(storage, "wb"), so their owner may write them; O_TRUNC with write
\* access empties the file.
os_open(dir, storage, flags) ==
    IF "O_TRUNC" \in flags /\ flags \cap {"O_WRONLY", "O_RDWR"} # {}
    THEN Put(dir, storage, <<>>)
    ELSE dir

\* os.open(entry.contents.storage, flags) succeeds: open_contents returns
\* a descriptor of the blob and the lock is released.
OcOpenWith(s, t, flags) ==
    LET p == thr[s][t].path
        key == Key(s, p)
        storage == Val(entries[s][key].contents).storage
    IN
    /\ thr[s][t].pc = "oc_open"
    /\ blob_exists(entries[s][key], contents_dir)
    /\ contents_dir' = os_open(contents_dir, storage, flags)
    /\ entry_locks' = [entry_locks EXCEPT ![s] = Del(@, key)]
    /\ thr' = [thr EXCEPT ![s][t] = IdleThread]
    /\ last_ret' = Ret(s, "open_contents", p, TRUE, None,
                       Some(contents_dir'[storage]), None)
    /\ served' = [served EXCEPT ![s][p] = Some(contents_dir'[storage])]
    /\ sync_since' = [sync_since EXCEPT ![s] = @ \ {p}]
    /\ UNCHANGED <<aux_vars, clock, config, entries, phase, main, index, index_torn, index_lock,
                   uuid, local_vars, meta_fetches, read_calls, answers,
                   changed_during, created_by, waited, saved_entries>>

\* open_contents called with O_RDONLY, as for a program that reads the
\* file.
OcOpen(s, t) == OcOpenWith(s, t, O_RDONLY)

\* os.open raises FileNotFoundError: the contents are fetched again with
\* force=True and the loop tries os.open once more.
OcOpenMissing(s, t) ==
    LET p == thr[s][t].path
        key == Key(s, p)
    IN
    /\ thr[s][t].pc = "oc_open"
    /\ ~blob_exists(entries[s][key], contents_dir)
    /\ read_calls[s][p] < MaxCount
    /\ thr' = [thr EXCEPT ![s][t] = [pc |-> "oc_read_rpc", path |-> p, force |-> TRUE]]
    /\ read_calls' = [read_calls EXCEPT ![s][p] = @ + 1]
    /\ UNCHANGED <<aux_vars, clock, config, entries, entry_locks, phase, main, disk_vars,
                   local_vars, meta_fetches, last_ret, answers, served,
                   sync_since, changed_during, created_by, waited, saved_entries>>

---------------------------------------------------------------------------
(* RemoteCache.sync, load and save, run by the session's main thread.      *)

\* The metadata sync sends back: the entries of this machine, by path.
cached_metadata(s) ==
    LET own == {k \in DOMAIN entries[s] : StartsWith(k, config[s].machine_id)}
    IN  [p \in {entries[s][k].path : k \in own} |->
            entries[s][CHOOSE k \in own : entries[s][k].path = p].meta]

\* sync collects the cached metadata and asks the local machine which of
\* it has changed; nothing is sent when nothing is cached.
SyncCall(s) ==
    LET reply == get_changed_metadata(svc[s], Fs(s), cached_metadata(s))
    IN
    /\ Active(s)
    /\ main[s].pc = "idle"
    /\ DOMAIN cached_metadata(s) # {}
    /\ svc' = [svc EXCEPT ![s] = reply.svc]
    /\ main' = [main EXCEPT ![s] = [pc |-> "sync_apply", pending |-> reply.ret,
                                    merge |-> TRUE]]
    /\ phase' = [phase EXCEPT ![s] = "run"]
    /\ UNCHANGED <<aux_vars, clock, config, entries, entry_locks, thr, disk_vars, files,
                   changes, hist_vars>>

\* A sync that keeps the contents of every changed entry, marked dirty.
sync_contents_KeepAll(contents, new_metadata) ==
    IF IsNone(contents) THEN None
    ELSE Some([Val(contents) EXCEPT !.dirty = TRUE])

\* What the body of sync's loop makes of the contents of a changed entry.
sync_contents(contents, new_metadata) ==
    IF IsNone(contents) THEN None
    ELSE IF IsSome(new_metadata.error) THEN None
    ELSE IF IsSome(new_metadata.attr) /\ ~S_ISREG(Val(new_metadata.attr).st_mode)
    THEN None
    ELSE Some([Val(contents) EXCEPT !.dirty = TRUE])

\* The entry after one round of sync's loop.
sync_entry(entry, new_metadata, now) ==
    [entry EXCEPT !.last_access = now,
                  !.meta = new_metadata,
                  !.last_update = now,
                  !.contents = sync_contents(@, new_metadata)]

\* One round of sync's loop: the entry of a changed path is locked and
\* updated.
SyncApply(s, p) ==
    LET key == Key(s, p) IN
    /\ main[s].pc = "sync_apply"
    /\ p \in DOMAIN main[s].pending
    /\ key \notin Held(s)
    /\ key \in DOMAIN entries[s]
    /\ entries' = [entries EXCEPT ![s][key] =
                       sync_entry(@, main[s].pending[p], clock)]
    /\ main' = [main EXCEPT ![s].pending =
                   [q \in DOMAIN @ \ {p} |-> @[q]]]
    /\ sync_since' = [sync_since EXCEPT ![s] = @ \cup {p}]
    /\ UNCHANGED <<aux_vars, clock, config, entry_locks, phase, thr, disk_vars, local_vars,
                   meta_fetches, read_calls, last_ret, answers, served,
                   changed_during, created_by, waited, saved_entries>>

\* The paths sync reports as already fetched: entries with clean contents.
clean_contents_paths(d) ==
    {d[k].path : k \in {x \in DOMAIN d :
                          IsSome(d[x].contents) /\ ~Val(d[x].contents).dirty}}

\* The end of sync: with prefetching, the local machine is told which
\* contents are cached.
SyncFinish(s) ==
    /\ main[s].pc = "sync_apply"
    /\ DOMAIN main[s].pending = {}
    /\ svc' = [svc EXCEPT ![s] =
                  IF config[s].prefetch
                  THEN mark_previously_fetched_contents(@, clean_contents_paths(entries[s]))
                  ELSE @]
    /\ main' = [main EXCEPT ![s] = IdleMain]
    /\ UNCHANGED <<aux_vars, clock, config, entries, entry_locks, phase, thr, disk_vars,
                   files, changes, hist_vars>>

\* RemoteCache._read_disk_entries: the entries of the index, or
\* FileNotFoundError (ok is FALSE).
read_disk_entries(idx) ==
    IF IsSome(idx)
    THEN [ok |-> TRUE, ret |-> load_json(Val(idx))]
    ELSE [ok |-> FALSE, ret |-> << >>]

\* RemoteCache.load in a session that has not used its cache yet: under
\* the index lock, the entries become those of the index; FileNotFoundError
\* leaves the cache empty.
Load(s) ==
    LET disk == read_disk_entries(index) IN
    /\ phase[s] = "new"
    /\ main[s].pc = "idle"
    /\ index_lock = 0
    /\ entries' = [entries EXCEPT ![s] = IF disk.ok THEN disk.ret ELSE @]
    /\ created_by' = MarkCreated(s, entries[s], entries'[s], "disk")
    /\ phase' = [phase EXCEPT ![s] = "run"]
    /\ UNCHANGED <<aux_vars, clock, config, entry_locks, main, thr, disk_vars, local_vars,
                   meta_fetches, read_calls, last_ret, answers, served,
                   sync_since, changed_during, waited, saved_entries>>

\* The entries save writes: the merge with the disk's entries when asked
\* for, then the LRU pass for one order of the sorted list.
merged_entries(s, merge_disk_cache) ==
    IF merge_disk_cache
    THEN merge_disk_entries(entries[s], read_disk_entries(index).ret)
    ELSE entries[s]

\* RemoteCache.save up to the point where the index is written: the index
\* lock is taken, the disk's entries are merged in, the LRU pass runs and
\* the unreferenced blobs are deleted.  No entry lock is taken.
SaveBody(s, merge_disk_cache) ==
    /\ Active(s)
    /\ main[s].pc = "idle"
    /\ index_lock = 0
    /\ index_lock' = s
    /\ \E oldest \in SortedByLastAccess(merged_entries(s, merge_disk_cache)) :
          entries' = [entries EXCEPT ![s] =
                         lru_cleanup(merged_entries(s, merge_disk_cache), oldest,
                                     config[s].max_entries, config[s].max_size)]
    /\ contents_dir' = garbage_collect_blobs(entries'[s], contents_dir)
    /\ main' = [main EXCEPT ![s] = [pc |-> "save_write", pending |-> << >>,
                                    merge |-> merge_disk_cache]]
    /\ phase' = [phase EXCEPT ![s] = "saving"]
    /\ UNCHANGED <<aux_vars, clock, config, entry_locks, thr, index, index_torn, uuid,
                   local_vars,
                   hist_vars>>

\* save as destroy calls it: the session's file system is unmounted by
\* then, so its threads are idle.
SaveBegin(s, merge_disk_cache) ==
    /\ AllIdle(s)
    /\ SaveBody(s, merge_disk_cache)

\* save called while threads of the session are inside the cache.
SaveInflight(s, merge_disk_cache) ==
    /\ ~AllIdle(s)
    /\ SaveBody(s, merge_disk_cache)

\* The end of save: the index is written and the index lock released.
SaveEnd(s) ==
    /\ main[s].pc = "save_write"
    /\ index_lock = s
    /\ index' = Some(dump_json(entries[s]))
    /\ index_torn' = FALSE
    /\ index_lock' = 0
    /\ saved_entries' = entries[s]
    /\ main' = [main EXCEPT ![s].pc = "idle"]
    /\ phase' = [phase EXCEPT ![s] = "done"]
    /\ UNCHANGED <<aux_vars, clock, config, entries, entry_locks, thr, contents_dir, uuid,
                   local_vars, meta_fetches, read_calls, last_ret, answers,
                   served, sync_since, changed_during, created_by,
                   waited>>

---------------------------------------------------------------------------
(* RemoteCachedFileSystem in front of the cache (caching/filesystem.py),   *)
(* RemoteFileSystem and LocalFileSystemService behind it.                  *)

\* What a call of the file system service gives: a value or an exception.
Gives(value) == [ok |-> TRUE, value |-> Some(value), error |-> None]
Raises(name, errno) == [ok |-> FALSE, value |-> None, error |-> Some(Exc(name, errno))]

\* LocalFileSystemService.getattr(path, None): os.stat of the path itself,
\* symlinks not followed.
fs_getattr(fs, path) ==
    IF Exists(fs, path) THEN Gives(from_stat(fs[path]))
    ELSE Raises("FileNotFoundError", "ENOENT")

\* LocalFileSystemService.readlink: os.readlink
fs_readlink(fs, path) ==
    IF ~Exists(fs, path) THEN Raises("FileNotFoundError", "ENOENT")
    ELSE IF ~S_ISLNK(fs[path].st_mode) THEN Raises("OSError", "EINVAL")
    ELSE Gives(Val(fs[path].link))

\* LocalFileSystemService.open for reading: os.open follows symlinks; the
\* handle it gives is the file reached.
fs_open(fs, path) ==
    LET t == realpath(fs, path) IN
    IF ~Exists(fs, t) THEN Raises("FileNotFoundError", "ENOENT")
    ELSE IF S_ISLNK(fs[t].st_mode) THEN Raises("OSError", "ELOOP")
    ELSE IF ~HasBit(fs[t].st_mode, S_IRUSR) THEN Raises("PermissionError", "EACCES")
    ELSE Gives(t)

\* LocalFileSystemService.read: os.pread on the open file.
fs_read(fs, fh) ==
    IF S_ISDIR(fs[fh].st_mode) THEN Raises("IsADirectoryError", "EISDIR")
    ELSE Gives(fs[fh].data)

\* What a file system operation returned or raised.
FsRet(s, op, path, r) == Ret(s, op, path, r.ok, None, r.value, r.error)

\* RemoteFileSystem.<op>: the call goes to the file system service of the
\* local machine through the RPC client, which gives r; open_after are
\* the files open on the service afterwards.  The cache is not involved.
Forward(s, op, path, r, open_after) ==
    /\ Active(s)
    /\ fs_calls' = [fs_calls EXCEPT ![s] = @ \cup {<<op, path>>}]
    /\ handles' = [handles EXCEPT ![s] = open_after]
    /\ last_ret' = FsRet(s, op, path, r)
    /\ UNCHANGED <<clock, config, cache_vars, disk_vars, local_vars,
                   meta_fetches, read_calls, answers, served, sync_since,
                   changed_during, created_by, waited, saved_entries,
                   service_vars, rpc_vars, ext_vars>>

\* An operation on a cached file that uses the file descriptor only
\* (os.pread, os.close) or does nothing: it gives r.
Local(s, op, path, r) ==
    /\ Active(s)
    /\ last_ret' = FsRet(s, op, path, r)
    /\ UNCHANGED <<clock, config, cache_vars, disk_vars, local_vars,
                   meta_fetches, read_calls, answers, served, sync_since,
                   changed_during, created_by, waited, saved_entries, aux_vars>>

\* cache.get_metadata(path) as a thread of the adapter goes through it.
CacheGetMetadata(s, t, p) ==
    \/ GetMetadataHit(s, t, p)
    \/ GetMetadataMiss(s, t, p)
    \/ Wait(s, t, p, "gm_lock")
    \/ thr[s][t].path = p /\ GmReturn(s, t)

\* cache.open_contents(path, flags) as a thread of the adapter goes
\* through it.
CacheOpenContents(s, t, p) ==
    \/ OpenContentsHit(s, t, p)
    \/ OpenContentsMiss(s, t, p)
    \/ Wait(s, t, p, "oc_lock")
    \/ thr[s][t].path = p /\ OcMetaReturn(s, t)
    \/ thr[s][t].path = p /\ OcReadReturn(s, t)
    \/ thr[s][t].path = p /\ OcOpen(s, t)

\* What getattr makes of the metadata get_metadata returned (ret is the
\* outcome of get_metadata): the attributes, or the exception raised.
getattr_cached(ret) ==
    IF ret.ok THEN Gives(Val(Val(ret.meta).attr))
    ELSE [ok |-> FALSE, value |-> None, error |-> ret.error]

\* A readlink that hands on whatever link field the metadata has.
readlink_cached_AnyLink(ret) ==
    IF ~ret.ok THEN [ok |-> FALSE, value |-> None, error |-> ret.error]
    ELSE [ok |-> TRUE, value |-> Val(ret.meta).link, error |-> None]

\* What readlink makes of the metadata get_metadata returned: the link,
\* or OSError(EINVAL) when there is none.
readlink_cached(ret) ==
    IF ~ret.ok THEN [ok |-> FALSE, value |-> None, error |-> ret.error]
    ELSE IF IsNone(Val(ret.meta).link) \/ Val(Val(ret.meta).link) = <<>>
    THEN Raises("OSError", "EINVAL")
    ELSE Gives(Val(Val(ret.meta).link))

\* RemoteCachedFileSystem.getattr
FsGetattr(s, t, p) ==
    \/ is_cacheable(config[s].cacheable_paths, p) /\ CacheGetMetadata(s, t, p)
    \/ /\ ~is_cacheable(config[s].cacheable_paths, p)
       /\ Forward(s, "getattr", p, fs_getattr(Fs(s), p), handles[s])

\* RemoteCachedFileSystem.readlink
FsReadlink(s, t, p) ==
    \/ is_cacheable(config[s].cacheable_paths, p) /\ CacheGetMetadata(s, t, p)
    \/ /\ ~is_cacheable(config[s].cacheable_paths, p)
       /\ Forward(s, "readlink", p, fs_readlink(Fs(s), p), handles[s])

\* The files open on the service after open gave r.
opened(s, p, r) ==
    IF r.ok THEN handles[s] \cup {[path |-> p, fh |-> Val(r.value)]} ELSE handles[s]

\* RemoteCachedFileSystem.open
FsOpen(s, t, p) ==
    \/ is_cacheable(config[s].cacheable_paths, p) /\ CacheOpenContents(s, t, p)
    \/ /\ ~is_cacheable(config[s].cacheable_paths, p)
       /\ Forward(s, "open", p, fs_open(Fs(s), p), opened(s, p, fs_open(Fs(s), p)))

\* RemoteCachedFileSystem.read: of a file open was called for.  The
\* descriptor of a cached file is that of the blob the last open served.
FsRead(s, p) ==
    \/ /\ is_cacheable(config[s].cacheable_paths, p)
       /\ IsSome(served[s][p])
       /\ Local(s, "read", p, Gives(Val(served[s][p])))
    \/ /\ ~is_cacheable(config[s].cacheable_paths, p)
       /\ \E h \in handles[s] :
             /\ h.path = p
             /\ Forward(s, "read", p, fs_read(Fs(s), h.fh), handles[s])

\* RemoteCachedFileSystem.release
FsRelease(s, p) ==
    \/ /\ is_cacheable(config[s].cacheable_paths, p)
       /\ IsSome(served[s][p])
       /\ Local(s, "release", p, Gives(<<>>))
    \/ /\ ~is_cacheable(config[s].cacheable_paths, p)
       /\ \E h \in handles[s] :
             /\ h.path = p
             /\ Forward(s, "release", p, Gives(<<>>), handles[s] \ {h})

\* RemoteCachedFileSystem.flush
FsFlush(s, p) ==
    \/ /\ is_cacheable(config[s].cacheable_paths, p)
       /\ IsSome(served[s][p])
       /\ Local(s, "flush", p, Gives(<<>>))
    \/ /\ ~is_cacheable(config[s].cacheable_paths, p)
       /\ \E h \in handles[s] :
             /\ h.path = p
             /\ Forward(s, "flush", p, Gives(<<>>), handles[s])

---------------------------------------------------------------------------
(* LocalCacheService called over RPC, one call at a time (service.py).     *)

\* A call of the service returns (or raises, when ok is FALSE) and leaves
\* the service as after.
SvcStep(s, op, arg, ok, ret, prefetches, warned, after) ==
    /\ svc_ret' = Call(s, op, arg, svc[s], ok, ret, prefetches, warned)
    /\ svc' = [svc EXCEPT ![s] = after]
    /\ UNCHANGED <<clock, config, cache_vars, disk_vars, files, changes,
                   hist_vars, front_vars, rpc_vars, ext_vars, resolving,
                   returned>>

\* r is what the operator of the method gave.
SvcMetadata(s, op, arg, r) ==
    SvcStep(s, op, arg, TRUE, r.ret, <<>>, FALSE, r.svc)
SvcContents(s, op, arg, r) ==
    SvcStep(s, op, arg, r.ok, r.ret, <<>>, FALSE, r.svc)
SvcMetadataPrefetch(s, op, arg, r) ==
    SvcStep(s, op, arg, TRUE, r.ret, r.prefetches, r.warned, r.svc)
SvcContentsPrefetch(s, op, arg, r) ==
    SvcStep(s, op, arg, r.ok, r.ret, r.prefetches, r.warned, r.svc)

SvcGetMetadata(s, p) ==
    SvcMetadata(s, "get_metadata", p, get_metadata(svc[s], Fs(s), p))

SvcGetChangedMetadata(s, cached) ==
    SvcMetadata(s, "get_changed_metadata", cached,
                get_changed_metadata(svc[s], Fs(s), cached))

SvcReadfile(s, p) ==
    SvcContents(s, "readfile", p, readfile(svc[s], Fs(s), p))

SvcMarkPreviouslyFetchedContents(s, paths) ==
    SvcStep(s, "mark_previously_fetched_contents", paths, TRUE, None, <<>>, FALSE,
            mark_previously_fetched_contents(svc[s], paths))

SvcSetPrefetchablePaths(s, paths) ==
    SvcStep(s, "set_prefetchable_paths", paths, TRUE, None, <<>>, FALSE,
            set_prefetchable_paths(svc[s], paths))

\* get_metadata_prefetch when a prefetch rule raised (os.readlink on a
\* symlink that is being replaced): the except branch.
get_metadata_prefetch_failed(base) ==
    [ret |-> base.ret, prefetches |-> <<>>, warned |-> TRUE, svc |-> base.svc]

SvcGetMetadataPrefetch(s, p) ==
    \/ SvcMetadataPrefetch(s, "get_metadata_prefetch", p,
                           get_metadata_prefetch(svc[s], Fs(s), p))
    \/ /\ Exists(Fs(s), p) /\ S_ISLNK(Fs(s)[p].st_mode)
       /\ SvcMetadataPrefetch(s, "get_metadata_prefetch", p,
              get_metadata_prefetch_failed(get_metadata(svc[s], Fs(s), p)))

SvcReadfilePrefetch(s, p) ==
    SvcContentsPrefetch(s, "readfile_prefetch", p,
                        readfile_prefetch(svc[s], Fs(s), p))

---------------------------------------------------------------------------
(* Specifications.                                                         *)

\* The local file systems the sessions start from: /m.py and /l are
\* regular files, /l possibly unreadable or a symlink to /m.py.
FileSystem(l) ==
    [p \in AllPaths |->
        IF p = PathPy THEN File(TRUE, ModeRegRW, DataF, 0, None)
        ELSE IF p = PathL THEN l
        ELSE NoFile]

PlainL == File(TRUE, ModeRegRW, DataG, 0, None)
SecretL == File(TRUE, ModeRegNoRead, DataG, 0, None)
LinkL == File(TRUE, ModeLnk, <<>>, 0, Some(<<"m", ".", "p", "y">>))

\* get_metadata by the threads T of the sessions in S on the paths P.
MetadataStep(S, T, P) ==
    \E s \in S : \E t \in T :
        \/ \E p \in P : GetMetadataHit(s, t, p)
        \/ \E p \in P : GetMetadataMiss(s, t, p)
        \/ GmReturn(s, t)

\* open_contents by the threads T of the sessions in S on the paths P.
ContentsStep(S, T, P) ==
    \E s \in S : \E t \in T :
        \/ \E p \in P : OpenContentsHit(s, t, p)
        \/ \E p \in P : OpenContentsMiss(s, t, p)
        \/ OcMetaReturn(s, t)
        \/ OcReadReturn(s, t)
        \/ OcOpen(s, t)

\* Calls that find the lock of their entry taken: get_metadata on the
\* paths P, open_contents on the paths Q.
WaitStep(S, T, P, Q) ==
    \E s \in S : \E t \in T :
        \/ \E p \in P : Wait(s, t, p, "gm_lock")
        \/ \E p \in Q : Wait(s, t, p, "oc_lock")

\* os.open misses a blob file in a session of S.
MissingStep(S, T) == \E s \in S : \E t \in T : OcOpenMissing(s, t)

\* The steps of sync in the sessions in S.
SyncStep(S) ==
    \E s \in S :
        \/ SyncCall(s)
        \/ \E p \in Paths : SyncApply(s, p)
        \/ SyncFinish(s)

\* load and save in the sessions in S; B holds the values save is given
\* for merge_disk_cache.
DiskStep(S, B) ==
    \E s \in S :
        \/ Load(s)
        \/ \E merge_disk_cache \in B : SaveBegin(s, merge_disk_cache)
        \/ SaveEnd(s)

\* Programs on the local machines in M rewrite, protect and remove the
\* files P.
WriteStep(M, P) == \E m \in M : \E p \in P : LocalWrite(m, p)
ChmodStep(M, P) == \E m \in M : \E p \in P : LocalChmod(m, p)
RemoveStep(M, P) == \E m \in M : \E p \in P : LocalRemove(m, p)

\* One session with its threads, prefetching switched on, /l a symlink
\* to /m.py; the cache directory starts empty.
Init ==
    InitWith({[s \in Sessions |-> Config(MachineA, TRUE, 4, 4)]},
             {[m \in Machines |-> FileSystem(LinkL)]})

Next ==
    \/ Tick
    \/ MetadataStep({1}, Threads, Paths)
    \/ ContentsStep({1}, Threads, {PathPy})
    \/ WaitStep({1}, Threads, Paths, {PathPy})
    \/ DiskStep({1}, {TRUE})
    \/ WriteStep({MachineA}, {PathPy})
    \/ RemoveStep({MachineA}, {PathPy})

Spec == Init /\ [][Next]_vars

\* C1: when threads of one session call get_metadata for a path that has
\* no entry yet, the cache sends one metadata call for it at most, exactly
\* one once a caller has its answer (none when a prefetch has supplied the
\* entry first), and every caller is given the same answer.
C1_SingleMetadataFetch ==
    \A s \in Sessions : \A p \in Paths :
        /\ meta_fetches[s][p] <= 1
        /\ Cardinality(answers[s][p]) <= 1
        /\ (answers[s][p] # {} /\ created_by[s][p] # "prefetch")
              => meta_fetches[s][p] = 1

\* A get_metadata call has waited for the lock while another get_metadata
\* call of the same path was fetching, and both have returned.
C1_Witness ==
    \E p \in Paths :
        /\ <<p, "gm_lock", "gm_rpc">> \in waited[1]
        /\ AllIdle(1)
        /\ Cardinality(answers[1][p]) = 1
        /\ meta_fetches[1][p] = 1

\* The modes a dict of entries holds are those the local machine has
\* reported: here no mode changes, so those the files started with.
StoredModesIntact(d) ==
    \A k \in DOMAIN d :
        IsSome(d[k].meta.attr)
            => Val(d[k].meta.attr).st_mode = FileSystem(LinkL)[d[k].path].st_mode

WriteBits(mode) == {b \in {S_IWUSR, S_IWGRP, S_IWOTH} : HasBit(mode, b)}

\* C10: the metadata get_metadata returns has no write permission bit in
\* its mode, while the mode the entry stores, in memory and in the saved
\* index, stays the mode the local machine reported.
C10_ReadOnlyCopy ==
    /\ (last_ret.op = "get_metadata" /\ last_ret.ok)
          => WriteBits(Val(Val(last_ret.meta).attr).st_mode) = {}
    /\ \A s \in Sessions : StoredModesIntact(entries[s])
    /\ IsSome(index) => StoredModesIntact(load_json(Val(index)))

\* get_metadata has returned the metadata of a writable file without its
\* write bits, and the index saved afterwards holds the mode with them.
C10_Witness ==
    /\ last_ret.op = "get_metadata" /\ last_ret.ok
    /\ WriteBits(Val(Val(last_ret.meta).attr).st_mode) = {}
    /\ IsSome(index)
    /\ Key(1, last_ret.path) \in DOMAIN Val(index)
    /\ WriteBits(Val(load_json(Val(index))[Key(1, last_ret.path)].meta.attr).st_mode)
          = {S_IWUSR, S_IWGRP, S_IWOTH}

\* One session with one thread and without prefetching; /l cannot be
\* read on the local machine; /m.py may change and the session may sync.
InitSync ==
    InitWith({[s \in Sessions |-> Config(MachineA, FALSE, 4, 4)]},
             {[m \in Machines |-> FileSystem(SecretL)]})

NextSync ==
    \/ Tick
    \/ ContentsStep({1}, {1}, Paths)
    \/ SyncStep({1})
    \/ WriteStep({MachineA}, {PathPy})
    \/ ChmodStep({MachineA}, {PathPy})
    \/ RemoveStep({MachineA}, {PathPy})

SpecSync == InitSync /\ [][NextSync]_vars

NoCleanBlob(s, p) ==
    IF Key(s, p) \notin DOMAIN entries[s] THEN TRUE
    ELSE IF IsNone(entries[s][Key(s, p)].contents) THEN TRUE
    ELSE IF Val(entries[s][Key(s, p)].contents).dirty THEN TRUE
    ELSE Val(entries[s][Key(s, p)].contents).storage \notin DOMAIN contents_dir

C9_MutationRefreshesLastUpdate ==
    [][\A s \in Sessions :
          \A k \in DOMAIN entries[s] \cap DOMAIN entries'[s] :
              (/\ phase[s] = "run" /\ phase'[s] = "run"
               /\ \/ entries'[s][k].meta # entries[s][k].meta
                  \/ entries'[s][k].contents # entries[s][k].contents)
                  => entries'[s][k].last_update = clock]_vars

\* Two sessions of one local machine, one thread each, share the cache
\* directory: each may load the index, open /m.py, sync and save.
InitShared ==
    InitWith({[s \in Sessions |-> Config(MachineA, FALSE, 4, 4)]},
             {[m \in Machines |-> FileSystem(PlainL)]})

NextShared ==
    \/ Tick
    \/ ContentsStep(Sessions, {1}, {PathPy})
    \/ MissingStep(Sessions, {1})
    \/ SyncStep(Sessions)
    \/ DiskStep(Sessions, {TRUE})
    \/ WriteStep({MachineA}, {PathPy})

SpecShared == InitShared /\ [][NextShared]_vars

\* The blob files the entries of an index refer to.
ReferencedBlobs(d) ==
    {Val(d[k].contents).storage : k \in {x \in DOMAIN d : IsSome(d[x].contents)}}

\* Some session has just finished a save.
SaveReturns == \E s \in Sessions : phase[s] = "saving" /\ phase'[s] = "done"

\* C4 as stated: right after a save, every blob the written index refers
\* to is in the contents directory and every file of the contents
\* directory is referred to by the written index.
C4_BlobsMatchIndex ==
    [][SaveReturns =>
          /\ ReferencedBlobs(load_json(Val(index'))) \subseteq DOMAIN contents_dir'
          /\ DOMAIN contents_dir' \subseteq ReferencedBlobs(load_json(Val(index')))]_vars

\* C3 as stated: the bytes open_contents serves for a path change only
\* after sync has updated the path's entry, and the first open after sync
\* has updated the entry serves the bytes the local file has.
C3_StaleUntilSync ==
    [][\A s \in Sessions : \A p \in Paths :
          /\ (IsSome(served[s][p]) /\ served'[s][p] # served[s][p])
                => p \in sync_since[s]
          /\ (p \in sync_since[s] /\ p \notin sync_since'[s])
                => served'[s][p] = Some(Fs(s)[p].data)]_vars

\* One session after the other in one cache directory that keeps a
\* single entry, or two entries and one byte of contents: session 1 asks
\* for the metadata of /l, opens /m.py, syncs and saves, then session 2
\* is constructed, loads the index and does the same.
InitReload ==
    InitWith({[s \in Sessions |-> c] :
                 c \in {Config(MachineA, FALSE, 1, 4), Config(MachineA, FALSE, 2, 1)}},
             {[m \in Machines |-> FileSystem(PlainL)]})

SessionStep(S) ==
    \/ MetadataStep(S, {1}, {PathL})
    \/ ContentsStep(S, {1}, {PathPy})
    \/ SyncStep(S)
    \/ DiskStep(S, {TRUE})

NextReload ==
    \/ Tick
    \/ SessionStep({1})
    \/ phase[1] = "done" /\ SessionStep({2})
    \/ WriteStep({MachineA}, {PathPy})

SpecReload == InitReload /\ [][NextReload]_vars

\* The entry of path p that the running session s has loaded is as it was
\* loaded, with clean contents.
RestoredClean(s, p) ==
    /\ phase[s] = "run"
    /\ created_by[s][p] = "disk"
    /\ Key(s, p) \in DOMAIN entries[s]
    /\ entries[s][Key(s, p)].meta = saved_entries[Key(s, p)].meta
    /\ IsSome(saved_entries[Key(s, p)].contents)
    /\ ~Val(saved_entries[Key(s, p)].contents).dirty

\* C7: the index decodes to the entries the save wrote (those that the
\* LRU pass left); a load makes them the entries of the fresh cache, their
\* blob files being on disk; and the fresh cache sends no metadata call
\* for a restored entry and no read call for restored clean contents.
C7_SaveLoadRoundTrip ==
    /\ [](IsSome(index) => load_json(Val(index)) = saved_entries)
    /\ [](\A s \in Sessions : \A p \in Paths :
            /\ created_by[s][p] = "disk" => meta_fetches[s][p] = 0
            /\ RestoredClean(s, p) => read_calls[s][p] = 0)
    /\ [][\A s \in Sessions :
            (phase[s] = "new" /\ phase'[s] = "run" /\ entries'[s] # entries[s])
                => /\ entries'[s] = saved_entries
                   /\ ReferencedBlobs(entries'[s]) \subseteq DOMAIN contents_dir]_vars

\* Session 2 has loaded an entry with clean contents and has answered
\* get_metadata and open_contents for it without any call to the local
\* machine.
C7_Witness ==
    /\ RestoredClean(2, PathPy)
    /\ IsSome(served[2][PathPy])
    /\ meta_fetches[2][PathPy] = 0
    /\ read_calls[2][PathPy] = 0
    /\ created_by[2][PathL] = "disk"
    /\ answers[2][PathL] # {}
    /\ meta_fetches[2][PathL] = 0

\* Two sessions of one local machine run side by side on one cache
\* directory and cache different paths: session 1 uses /m.py, session 2
\* uses /l; the directory keeps four entries, or one.
InitMerge ==
    InitWith({[s \in Sessions |-> c] :
                 c \in {Config(MachineA, FALSE, 4, 4), Config(MachineA, FALSE, 1, 4)}},
             {[m \in Machines |-> FileSystem(PlainL)]})

NextMerge ==
    \/ Tick
    \/ MetadataStep({1}, {1}, {PathPy})
    \/ ContentsStep({1}, {1}, {PathPy})
    \/ MetadataStep({2}, {1}, {PathL})
    \/ ContentsStep({2}, {1}, {PathL})
    \/ MissingStep(Sessions, {1})
    \/ DiskStep(Sessions, {TRUE})

SpecMerge == InitMerge /\ [][NextMerge]_vars

\* The keys the sessions have had entries for.
CachedKeys ==
    UNION {{Key(s, p) : p \in {q \in Paths : created_by[s][q] # "none"}} :
              s \in Sessions}

\* The entries cached fit the limit on entries of every session.
WithinLimits ==
    \A s \in Sessions : Cardinality(CachedKeys) <= config[s].max_entries

\* C6: when both sessions have saved and the limit on entries was not
\* exceeded, the index holds the entries of both; and a save within the
\* limit keeps every entry the index held, in a version at least as
\* recently updated.
C6_SavesMerge ==
    /\ []((WithinLimits /\ \A s \in Sessions : phase[s] = "done")
            => CachedKeys \subseteq DOMAIN load_json(Val(index)))
    /\ [][(SaveReturns /\ IsSome(index) /\ WithinLimits)
            => \A k \in DOMAIN load_json(Val(index)) :
                  /\ k \in DOMAIN load_json(Val(index'))
                  /\ load_json(Val(index'))[k].last_update
                        >= load_json(Val(index))[k].last_update]_vars

\* Each session has cached a path the other has not, both have saved and
\* the index holds both entries.
C6_Witness ==
    /\ \A s \in Sessions : phase[s] = "done"
    /\ created_by[1] = [p \in AllPaths |-> IF p = PathPy THEN "fetch" ELSE "none"]
    /\ created_by[2] = [p \in AllPaths |-> IF p = PathL THEN "fetch" ELSE "none"]
    /\ DOMAIN load_json(Val(index)) = {Key(1, PathPy), Key(2, PathL)}


\* Two sessions for two local machines share one cache directory and use
\* the same path: on machine a, /l is a regular file; on machine b, /l
\* is a symlink to /m.py.
InitMachines ==
    InitWith({[s \in Sessions |->
                  Config(IF s = 1 THEN MachineA ELSE MachineB, FALSE, 4, 4)]},
             {[m \in Machines |->
                  FileSystem(IF m = MachineA THEN PlainL ELSE LinkL)]})

NextMachines ==
    \/ Tick
    \/ MetadataStep(Sessions, {1}, {PathL})
    \/ ContentsStep(Sessions, {1}, {PathL})
    \/ MissingStep(Sessions, {1})
    \/ DiskStep(Sessions, {TRUE})

SpecMachines == InitMachines /\ [][NextMachines]_vars

\* What get_metadata answers for the path as it is on the session's own
\* local machine.
OwnAnswer(s, p) ==
    LET r == metadata_result(s, CacheEntry(p, stat_metadata(Fs(s), p), 0, 0, None))
    IN  <<r.meta, r.error>>

\* C8: with the local files unchanged, every answer of a session is that
\* of its own machine and comes after a fetch of its own, whatever the
\* other machine's session has left in the index; and when both sessions
\* have cached the path and saved, the index holds one entry per machine,
\* each with its machine's metadata.
C8_MachinePartition ==
    /\ \A s \in Sessions :
          /\ answers[s][PathL] \subseteq {OwnAnswer(s, PathL)}
          /\ IsSome(served[s][PathL])
                => Val(served[s][PathL]) = os_read(Fs(s), PathL).data
          /\ (answers[s][PathL] # {} \/ IsSome(served[s][PathL]))
                => meta_fetches[s][PathL] >= 1
    /\ (\A s \in Sessions : phase[s] = "done" /\ created_by[s][PathL] # "none")
          => /\ Key(1, PathL) # Key(2, PathL)
             /\ \A s \in Sessions :
                   /\ Key(s, PathL) \in DOMAIN load_json(Val(index))
                   /\ load_json(Val(index))[Key(s, PathL)].meta
                         = stat_metadata(Fs(s), PathL)

\* Session 2 has loaded the index session 1 saved with its entry of /l,
\* has answered get_metadata and open_contents for /l itself and has
\* saved.
C8_Witness ==
    /\ \A s \in Sessions : phase[s] = "done"
    /\ created_by[1][PathL] = "fetch"
    /\ created_by[2][PathL] = "fetch"
    /\ Key(1, PathL) \in DOMAIN entries[2]
    /\ answers[2][PathL] # {}
    /\ IsSome(served[2][PathL])
    /\ OwnAnswer(1, PathL) # OwnAnswer(2, PathL)


\* One session after the other opens /m.py and /l and saves, with limits
\* of one entry and one byte, two entries and one byte, or none at all.
InitLru ==
    InitWith({[s \in Sessions |-> c] :
                 c \in {Config(MachineA, FALSE, 1, 1), Config(MachineA, FALSE, 2, 1),
                        Config(MachineA, FALSE, 0, 0)}},
             {[m \in Machines |-> FileSystem(PlainL)]})

LruStep(S) ==
    \/ ContentsStep(S, {1}, Paths)
    \/ DiskStep(S, {TRUE})

NextLru ==
    \/ Tick
    \/ LruStep({1})
    \/ (phase[1] = "done" /\ LruStep({2}))

SpecLru == InitLru /\ [][NextLru]_vars

\* d are the entries before _lru_cleanup and e those after it: no deleted
\* entry is newer than a surviving one, and no entry whose contents are
\* gone is newer than one that still has contents.
EvictedInOrder(d, e) ==
    /\ \A k \in DOMAIN d \ DOMAIN e : \A j \in DOMAIN e :
          d[j].last_access >= d[k].last_access
    /\ \A k \in DOMAIN d : \A j \in DOMAIN e :
          (/\ IsSome(d[k].contents)
           /\ k \in DOMAIN e => IsNone(e[k].contents)
           /\ IsSome(e[j].contents))
              => d[j].last_access >= d[k].last_access

\* C5: the index a save writes has at most max_entries entries and at
\* most max_size bytes of contents, and the entries and contents the save
\* has dropped are the least recently accessed ones of the merged cache.
C5_LruAfterSave ==
    /\ [][\A s \in Sessions :
             (phase[s] = "saving" /\ phase'[s] = "done")
                => /\ count(load_json(Val(index'))) <= config[s].max_entries
                   /\ size(load_json(Val(index'))) <= config[s].max_size]_vars
    /\ [][\A s \in Sessions :
             (phase[s] # "saving" /\ phase'[s] = "saving")
                => EvictedInOrder(merged_entries(s, TRUE), entries'[s])]_vars

\* /m.py and /l were both opened and the save, limited to one entry and
\* one byte, has kept one entry, accessed last, with its contents, and
\* deleted the other.
C5_Witness ==
    /\ phase[1] = "done"
    /\ config[1].max_entries = 1
    /\ \A p \in Paths : IsSome(served[1][p])
    /\ \E p \in Paths :
          /\ DOMAIN load_json(Val(index)) = {Key(1, p)}
          /\ load_json(Val(index))[Key(1, p)].last_access = 1
          /\ IsSome(load_json(Val(index))[Key(1, p)].contents)


\* One session whose cache covers /l only, so that /m.py is not cacheable;
\* /l is a regular file, a symlink to /m.py, or missing.
InitFront ==
    InitWith({[s \in Sessions |-> ConfigPaths(MachineA, FALSE, 4, 4, <<PathL>>)]},
             {[m \in Machines |-> FileSystem(l)] : l \in {PlainL, LinkL, NoFile}})

NextFront ==
    \/ \E t \in Threads : \E p \in Paths : FsGetattr(1, t, p)
    \/ \E t \in Threads : \E p \in Paths : FsReadlink(1, t, p)
    \/ \E p \in Paths : FsOpen(1, 1, p)
    \/ \E p \in Paths : FsRead(1, p)
    \/ \E p \in Paths : FsRelease(1, p)
    \/ \E p \in Paths : FsFlush(1, p)

SpecFront == InitFront /\ [][NextFront]_vars

\* The path is neither one of the session's cacheable paths nor below one.
Outside(s, p) ==
    \A i \in 1..Len(config[s].cacheable_paths) :
        /\ p # config[s].cacheable_paths[i]
        /\ ~StartsWith(p, config[s].cacheable_paths[i] \o <<"/">>)

FsOps == {"getattr", "readlink", "open", "read", "release", "flush"}

\* C11: an operation on a path outside the cacheable paths is sent to the
\* file system service and leaves the cache and the cache service as they
\* were; no such path ever has an entry or a fetch.  An operation on a
\* cacheable path sends nothing to the file system service, and the path
\* sees at most one metadata fetch.
C11_UncachedForwarded ==
    /\ [](\A s \in Sessions : \A p \in Paths :
            IF Outside(s, p)
            THEN /\ Key(s, p) \notin DOMAIN entries[s]
                 /\ meta_fetches[s][p] = 0 /\ read_calls[s][p] = 0
                 /\ answers[s][p] = {} /\ IsNone(served[s][p])
            ELSE /\ \A op \in FsOps : <<op, p>> \notin fs_calls[s]
                 /\ meta_fetches[s][p] <= 1)
    /\ [][\A s \in Sessions :
            (/\ last_ret'.session = s /\ Outside(s, last_ret'.path)
             /\ \/ <<last_ret'.op, last_ret'.path>> # <<last_ret.op, last_ret.path>>
                \/ fs_calls' # fs_calls \/ handles' # handles)
               => /\ <<last_ret'.op, last_ret'.path>> \in fs_calls'[s]
                  /\ last_ret'.op \in FsOps
                  /\ UNCHANGED <<cache_vars, disk_vars, local_vars>>]_vars

\* All six operations were forwarded for /m.py, and /l, which is
\* cacheable, was answered by the cache after one metadata fetch.
C11_Witness ==
    /\ {<<op, PathPy>> : op \in FsOps} \subseteq fs_calls[1]
    /\ Key(1, PathL) \in DOMAIN entries[1]
    /\ meta_fetches[1][PathL] = 1
    /\ answers[1][PathL] # {}
    /\ waited[1] # {}


\* C12: what readlink gives for a cacheable path follows from the path's
\* entry alone, which one metadata fetch has filled: the entry's error is
\* raised, else its link returned, else OSError(EINVAL) raised.
C12_ReadlinkFromEntry ==
    \A s \in Sessions :
        (last_ret.session = s /\ last_ret.op = "get_metadata")
           => LET e == entries[s][Key(s, last_ret.path)]
                  r == readlink_cached(last_ret)
              IN  /\ meta_fetches[s][last_ret.path] = 1
                  /\ e.meta = stat_metadata(Fs(s), last_ret.path)
                  /\ IF IsSome(e.meta.error)
                     THEN ~r.ok /\ r.error = e.meta.error
                     ELSE IF IsSome(e.meta.link)
                     THEN r.ok /\ r.value = e.meta.link
                     ELSE ~r.ok /\ r.error = Some(Exc("OSError", "EINVAL"))

\* /l is missing: one thread asked for it while the other was fetching its
\* metadata, both calls are over and the last one raised the cached
\* FileNotFoundError.
C12_Witness ==
    /\ last_ret.session = 1 /\ last_ret.op = "get_metadata"
    /\ last_ret.path = PathL
    /\ <<PathL, "gm_lock", "gm_rpc">> \in waited[1]
    /\ \A t \in Threads : thr[1][t].pc = "idle"
    /\ readlink_cached(last_ret).error = Some(Exc("FileNotFoundError", "ENOENT"))
    /\ meta_fetches[1][PathL] = 1

---------------------------------------------------------------------------
(* The cache service of one session called directly: every method, on     *)
(* every path, under every setting of the prefetchable paths.             *)

\* An ELF file linked against the library at /l.
DataElf == <<"E">> \o PathL
PyFile(mode, data) == File(TRUE, mode, data, 0, None)
CacheDir == File(TRUE, ModeDir, <<>>, 0, None)

ServiceFileSystem(py, l, d) ==
    [p \in AllPaths |-> IF p = PathPy THEN py ELSE IF p = PathL THEN l ELSE d]

ServiceFileSystems ==
    {ServiceFileSystem(PyFile(ModeRegRW, DataF), l, NoFile) :
        l \in {LinkL, PlainL, NoFile}}
    \cup {ServiceFileSystem(PyFile(ModeRegNoRead, DataF), LinkL, CacheDir)}
    \cup {ServiceFileSystem(PyFile(ModeRegRW, DataElf), l, CacheDir) :
            l \in {LinkL, PlainL, SecretL}}

\* The lists set_prefetchable_paths is given: the second has a relative
\* path after the path of the Python file.
PrefetchableLists ==
    {None, Some(<< <<"/">> >>), Some(<<PathL>>), Some(<<PathPy, <<"l">> >>)}

InitService ==
    /\ InitState({[s \in Sessions |-> Config(MachineA, TRUE, 4, 4)]},
                 {[m \in Machines |-> f] : f \in ServiceFileSystems})
    /\ svc = [s \in Sessions |-> NewService]
    /\ client_token = ServerToken

NextService ==
    \/ \E p \in AllPaths : SvcGetMetadata(1, p)
    \/ \E p \in AllPaths : SvcGetChangedMetadata(1, [q \in {p} |-> stat_metadata(Fs(1), q)])
    \/ \E p \in AllPaths : SvcReadfile(1, p)
    \/ \E p \in AllPaths : SvcGetMetadataPrefetch(1, p)
    \/ \E p \in AllPaths : SvcReadfilePrefetch(1, p)
    \/ \E p \in Paths : SvcMarkPreviouslyFetchedContents(1, {p})
    \/ \E l \in PrefetchableLists : SvcSetPrefetchablePaths(1, l)

SpecService == InitService /\ [][NextService]_vars

PrefetchCall(c) == c.op \in {"get_metadata_prefetch", "readfile_prefetch"}

\* What the rules suggested for the call c.
Suggested(c) ==
    IF c.op = "get_metadata_prefetch" THEN file_access(Fs(c.session), c.arg)
    ELSE file_read(Fs(c.session), c.arg)

SuggestedFor(c, contents) ==
    {Suggested(c)[i].path :
        i \in {j \in 1..Len(Suggested(c)) : Suggested(c)[j].contents = contents}}

\* The paths whose contents were wanted, and those of which only the
\* metadata was.
ContentsWanted(c) == SuggestedFor(c, TRUE)
MetadataWanted(c) == SuggestedFor(c, FALSE) \ SuggestedFor(c, TRUE)

EntryPaths(c) == {c.prefetches[i].path : i \in 1..Len(c.prefetches)}

\* What the session had fetched when the suggestions of c were resolved:
\* what it had when the call came and what the call itself asked for.
ContentsFetched(c) ==
    c.before.fetched_contents
        \cup (IF c.op = "readfile_prefetch" /\ c.ok THEN {c.arg} ELSE {})
MetadataFetched(c) ==
    c.before.fetched_metadata
        \cup (IF c.op = "get_metadata_prefetch" THEN {c.arg} ELSE {})

\* What the last call is known to have fetched.
CallFetched(c, s) ==
    /\ (c.op = "get_metadata") => c.arg \in s.fetched_metadata
    /\ (c.op = "get_changed_metadata") => DOMAIN c.arg \subseteq s.fetched_metadata
    /\ (c.op = "readfile" /\ c.ok) => c.arg \in s.fetched_contents
    /\ (c.op = "mark_previously_fetched_contents") => c.arg \subseteq s.fetched_contents
    /\ PrefetchCall(c) =>
          \A i \in 1..Len(c.prefetches) :
              /\ c.prefetches[i].path \in s.fetched_metadata
              /\ IsSome(c.prefetches[i].contents)
                    => c.prefetches[i].path \in s.fetched_contents

\* C13: within a session of the service a prefetch suggestion is passed
\* over when what it asks for was fetched before: no entry comes for a path
\* whose contents are wanted and were fetched (by readfile, a prefetch or
\* mark_previously_fetched_contents), nor for a path of which only the
\* metadata is wanted and was fetched (by get_metadata,
\* get_changed_metadata or a prefetch); what was fetched stays fetched.
C13_SatisfiedSkipped ==
    /\ [](PrefetchCall(svc_ret) =>
            /\ ContentsWanted(svc_ret) \cap ContentsFetched(svc_ret)
                   \cap EntryPaths(svc_ret) = {}
            /\ MetadataWanted(svc_ret) \cap MetadataFetched(svc_ret)
                   \cap EntryPaths(svc_ret) = {})
    /\ [](svc_ret.session # 0 => CallFetched(svc_ret, svc[svc_ret.session]))
    /\ [][\A s \in Sessions :
            /\ svc[s].fetched_metadata \subseteq svc'[s].fetched_metadata
            /\ svc[s].fetched_contents \subseteq svc'[s].fetched_contents]_vars

\* get_metadata_prefetch of the Python file when its contents and the
\* metadata of __pycache__ had been fetched: both suggestions are passed
\* over, though every path may be prefetched.
C13_Witness ==
    /\ svc_ret.op = "get_metadata_prefetch" /\ svc_ret.arg = PathPy
    /\ ~svc_ret.warned
    /\ IsNone(svc_ret.before.prefetchable_paths)
    /\ PathPy \in ContentsWanted(svc_ret) \cap svc_ret.before.fetched_contents
    /\ PathCacheDir \in MetadataWanted(svc_ret) \cap svc_ret.before.fetched_metadata
    /\ svc_ret.prefetches = <<>>

\* The path q is the path base or lies below it.
Under(q, base) ==
    \/ q = base
    \/ base = <<"/">> /\ isabs(q)
    \/ StartsWith(q, base \o <<"/">>)

\* Whether the list of prefetchable paths pp lets q be prefetched.
Allowed(pp, q) == \E i \in 1..Len(Val(pp)) : Under(q, Val(pp)[i])

AllWanted(c) == ContentsWanted(c) \cup MetadataWanted(c)

\* C14: every PrefetchEntry that get_metadata_prefetch or readfile_prefetch
\* returns has a path under one of the prefetchable paths set; a suggested
\* path outside them gets no entry and is not fetched (neither its metadata
\* nor its contents); and while set_prefetchable_paths was not called, or
\* was given None, every suggestion not yet satisfied gets its entry.
C14_OnlyPrefetchable ==
    PrefetchCall(svc_ret) =>
        /\ IsSome(svc_ret.before.prefetchable_paths) =>
              /\ \A q \in EntryPaths(svc_ret) :
                    Allowed(svc_ret.before.prefetchable_paths, q)
              /\ \A q \in AllWanted(svc_ret) :
                    ~Allowed(svc_ret.before.prefetchable_paths, q) =>
                        /\ q \notin EntryPaths(svc_ret)
                        /\ q \in svc[svc_ret.session].fetched_metadata
                              => q \in MetadataFetched(svc_ret)
                        /\ q \in svc[svc_ret.session].fetched_contents
                              => q \in ContentsFetched(svc_ret)
        /\ (IsNone(svc_ret.before.prefetchable_paths)
               /\ svc_ret.ok /\ ~svc_ret.warned) =>
              /\ ContentsWanted(svc_ret) \ ContentsFetched(svc_ret)
                    \subseteq EntryPaths(svc_ret)
              /\ MetadataWanted(svc_ret) \ MetadataFetched(svc_ret)
                    \subseteq EntryPaths(svc_ret)

\* get_metadata_prefetch of the symlink /l when only /l may be prefetched:
\* its target /m.py is suggested, gets no entry and is not fetched.
C14_Witness ==
    /\ svc_ret.op = "get_metadata_prefetch" /\ svc_ret.arg = PathL
    /\ svc_ret.before.prefetchable_paths = Some(<<PathL>>)
    /\ ~svc_ret.warned
    /\ PathPy \in MetadataWanted(svc_ret)
    /\ PathPy \notin svc[svc_ret.session].fetched_metadata
    /\ svc_ret.prefetches = <<>>

\* What the primary call of c gives by itself.
PrimaryOk(c) ==
    c.op = "get_metadata_prefetch" \/ os_read(Fs(c.session), c.arg).ok
PrimaryResult(c) ==
    IF c.op = "get_metadata_prefetch" THEN stat_metadata(Fs(c.session), c.arg)
    ELSE Some(from_data(os_read(Fs(c.session), c.arg).data))

\* The entry a suggested path q gets: its metadata, and its contents when
\* they are wanted, the metadata has no error and the file can be read.
EntryFor(c, q) ==
    PrefetchEntry(q, stat_metadata(Fs(c.session), q),
        IF /\ q \in ContentsWanted(c)
           /\ IsNone(stat_metadata(Fs(c.session), q).error)
           /\ os_read(Fs(c.session), q).ok
        THEN Some(from_data(os_read(Fs(c.session), q).data))
        ELSE None)

MayPrefetch(c, q) ==
    IsNone(c.before.prefetchable_paths) \/ Allowed(c.before.prefetchable_paths, q)

\* C15: get_metadata_prefetch and readfile_prefetch return what the primary
\* call returns whatever happens to the prefetching: when the rules or the
\* resolution of their suggestions fail, the primary result comes with an
\* empty prefetch list; and a suggested path whose contents cannot be read
\* still gets its entry, with its metadata and without contents.
C15_PrefetchFailureContained ==
    PrefetchCall(svc_ret) =>
        /\ svc_ret.ok = PrimaryOk(svc_ret)
        /\ svc_ret.ok => svc_ret.ret = PrimaryResult(svc_ret)
        /\ svc_ret.warned => svc_ret.ok /\ svc_ret.prefetches = <<>>
        /\ \A i \in 1..Len(svc_ret.prefetches) :
              svc_ret.prefetches[i] = EntryFor(svc_ret, svc_ret.prefetches[i].path)
        /\ (svc_ret.ok /\ ~svc_ret.warned) =>
              \A q \in ContentsWanted(svc_ret) \ ContentsFetched(svc_ret) :
                  MayPrefetch(svc_ret, q) => q \in EntryPaths(svc_ret)

\* get_metadata_prefetch of the Python file when the resolution fails at
\* its second suggestion (__pycache__ meets the relative prefetchable
\* path): the contents of the file were read for the first suggestion, and
\* the call returns the metadata with no prefetch.
C15_Witness ==
    /\ svc_ret.op = "get_metadata_prefetch" /\ svc_ret.arg = PathPy
    /\ svc_ret.warned
    /\ IsSome(svc_ret.ret.attr)
    /\ PathPy \in svc[svc_ret.session].fetched_contents
                      \ svc_ret.before.fetched_contents
    /\ svc_ret.prefetches = <<>>

---------------------------------------------------------------------------
(* Prefetching the target of a symlink (under Spec: /l is a symlink to     *)
(* /m.py and the cache prefetches).                                        *)

\* The thread t of session s returns from the get_metadata of p that found
\* no entry.
MissReturns(s, t, p) ==
    /\ thr[s][t].pc = "gm_rpc" /\ thr[s][t].path = p
    /\ thr'[s][t].pc = "idle"

---------------------------------------------------------------------------
(* get_changed_metadata, called with what a cache may hold: the metadata   *)
(* the paths had on some other day.                                        *)

\* A program on the local machine reads the file: its access time moves.
LocalAccess(m, p) ==
    /\ Exists(files[m], p)
    /\ LocalChange(m, p, [files[m][p] EXCEPT !.st_atime_ns = @ + 1])

\* The file system f with every file accessed since.
Accessed(f) ==
    [p \in DOMAIN f |->
        IF f[p].exists THEN [f[p] EXCEPT !.st_atime_ns = @ + 1] ELSE f[p]]

\* The metadata of the paths in D as it was when the file system was g.
CachedMetadata(D, g) == [p \in D |-> stat_metadata(g, p)]

CachedInputs ==
    {CachedMetadata(D, g) :
        D \in {{PathL}, {PathPy, PathL}, AllPaths},
        g \in ServiceFileSystems \cup {Accessed(f) : f \in ServiceFileSystems}}

InitChanged == InitService

NextChanged ==
    \/ \E cached \in CachedInputs : SvcGetChangedMetadata(1, cached)
    \/ \E p \in Paths : LocalAccess(MachineA, p)
    \/ WriteStep({MachineA}, {PathPy})

SpecChanged == InitChanged /\ [][NextChanged]_vars

\* The metadata a and b differ in something other than the access time:
\* the link target, the error, or an attribute other than st_atime_ns.
Differs(a, b) ==
    \/ a.link # b.link
    \/ a.error # b.error
    \/ IsSome(a.attr) # IsSome(b.attr)
    \/ /\ IsSome(a.attr) /\ IsSome(b.attr)
       /\ \/ Val(a.attr).st_mode # Val(b.attr).st_mode
          \/ Val(a.attr).st_size # Val(b.attr).st_size
          \/ Val(a.attr).st_mtime_ns # Val(b.attr).st_mtime_ns

\* What the call c of get_changed_metadata has to return, the local files
\* being as they are.
ChangedExactly(c) ==
    /\ DOMAIN c.ret =
          {p \in DOMAIN c.arg : Differs(stat_metadata(Fs(c.session), p), c.arg[p])}
    /\ \A p \in DOMAIN c.ret : c.ret[p] = stat_metadata(Fs(c.session), p)

\* C17: get_changed_metadata(cached) returns exactly the paths of cached
\* whose metadata now differs from the cached one in something other than
\* the access time, each with its metadata as it is now; a path of which
\* only the access time moved is left out.  (A step that leaves the local
\* files alone is a call of the service.)
C17_ChangedExactly ==
    [][(files' = files /\ svc_ret'.op = "get_changed_metadata")
          => ChangedExactly(svc_ret)']_vars

\* The cache holds /m.py with an older access time and /l as a regular
\* file; /l is a symlink now: /l is returned and /m.py is not.
C17_Witness ==
    /\ svc_ret.op = "get_changed_metadata"
    /\ DOMAIN svc_ret.arg = {PathPy, PathL}
    /\ svc_ret.arg[PathPy] # stat_metadata(Fs(svc_ret.session), PathPy)
    /\ IsNone(svc_ret.arg[PathL].link)
    /\ DOMAIN svc_ret.ret = {PathL}
    /\ IsSome(svc_ret.ret[PathL].link)

---------------------------------------------------------------------------
(* The RPC layer (rpc/__init__.py): Encoding.pack and unpack, the REQ      *)
(* sockets of the client and the workers of the server.                    *)

\* The objects a message is made of: what MessagePack packs by itself
\* (None, strings, numbers, lists, dicts), an exception, and any other
\* object (a set, say), which serialize_obj refuses.
Native(x) == [tag |-> "native", v |-> x]
ExceptionObj(exc) == [tag |-> "exception", v |-> exc]
OtherObj == [tag |-> "object", v |-> "set"]

\* Encoding.serialize_obj and Encoding.deserialize_obj on one object.
serialize_obj(o) ==
    IF o.tag = "exception" THEN [tag |-> "dict", v |-> serialize_exception(o.v)]
    ELSE o
deserialize_obj(x) ==
    IF x.tag = "dict" THEN ExceptionObj(deserialize_exception(x.v)) ELSE x

\* Encoding.pack of a tuple: the message, or the ValueError of
\* serialize_obj.
pack(objs) ==
    IF \E i \in 1..Len(objs) : objs[i].tag = "object"
    THEN [ok |-> FALSE, data |-> [format |-> "", items |-> <<>>],
          error |-> Exc("ValueError", "unserializable object")]
    ELSE [ok |-> TRUE,
          data |-> [format |-> "msgpack",
                    items |-> [i \in 1..Len(objs) |-> serialize_obj(objs[i])]],
          error |-> Exc("", "")]

\* Encoding.unpack: the tuple, or the failure of msgpack.unpackb on bytes
\* that are no MessagePack.
unpack(data) ==
    IF data.format = "msgpack"
    THEN [ok |-> TRUE,
          objs |-> [i \in 1..Len(data.items) |-> deserialize_obj(data.items[i])]]
    ELSE [ok |-> FALSE, objs |-> <<>>]

\* Bytes that are no MessagePack.
Garbage == [format |-> "garbage", items |-> <<>>]

\* ReturnType
NORMAL == 1
EXCEPTION == 2
TOKEN_ERROR == 3

\* The service behind the server: getattr of the file system service, and
\* get_object, a method whose return value cannot be serialized.
ServiceMethods == {"getattr", "get_object"}

\* getattr(self.service, function)(*args): what the method gives.
invoke(fs, function, args) ==
    IF function \notin ServiceMethods THEN Raises("AttributeError", function)
    ELSE IF function = "getattr" THEN fs_getattr(fs, args)
    ELSE Gives(OtherObj)

\* The object a method's return value is in a reply.
ReturnObj(r) == IF Val(r.value) = OtherObj THEN OtherObj ELSE Native(r.value)

\* A server that lets every token pass.
authenticated_Anyone(token, server_token) == TRUE

\* The token test of Server._run_worker
authenticated(token, server_token) == token = server_token

\* The reply the try block of _run_worker sends for what the method gave:
\* a result that cannot be packed raises inside the try and is answered as
\* an exception.
normal_reply(r) ==
    IF pack(<<Native(NORMAL), ReturnObj(r)>>).ok
    THEN pack(<<Native(NORMAL), ReturnObj(r)>>)
    ELSE pack(<<Native(EXCEPTION),
               ExceptionObj(pack(<<Native(NORMAL), ReturnObj(r)>>).error)>>)

method_reply(r) ==
    IF r.ok THEN normal_reply(r)
    ELSE pack(<<Native(EXCEPTION), ExceptionObj(Val(r.error))>>)

\* The reply of _run_worker to a decoded request (token, function, args).
worker_reply(fs, token, function, args) ==
    IF ~authenticated(token, ServerToken)
    THEN pack(<<Native(TOKEN_ERROR), Native(None)>>)
    ELSE IF IsNone(function) THEN pack(<<Native(NORMAL), Native(None)>>)
    ELSE method_reply(invoke(fs, Val(function), args))

\* Whether the request makes a method of the service run.
runs_method(token, function) ==
    /\ authenticated(token, ServerToken)
    /\ IsSome(function)
    /\ Val(function) \in ServiceMethods

non_rpc_vars == <<clock, config, cache_vars, disk_vars, local_vars, hist_vars,
                  front_vars, service_vars, ext_vars>>

\* One turn of the loop of Server._run_worker on the request req, decoded
\* as u: a request that unpack raises on ends the loop (the exception
\* leaves _run_worker), every other request is answered.
WorkerTurn(w, req, u) ==
    /\ requests' = Tail(requests)
    /\ taken' = [taken EXCEPT ![w] = @ + 1]
    /\ IF ~u.ok
       THEN /\ workers' = [workers EXCEPT ![w] = "stopped"]
            /\ UNCHANGED <<replies, dispatched, answered>>
       ELSE /\ replies' = [replies EXCEPT ![req.from] =
                  Append(@, worker_reply(Fs(1), u.objs[1].v, u.objs[2].v,
                                         u.objs[3].v).data)]
            /\ answered' = [answered EXCEPT ![w] = @ + 1]
            /\ dispatched' =
                  IF runs_method(u.objs[1].v, u.objs[2].v)
                  THEN dispatched \cup {<<u.objs[1].v, u.objs[2].v>>}
                  ELSE dispatched
            /\ UNCHANGED workers
    /\ UNCHANGED <<non_rpc_vars, client_vars, strays>>

\* Server._run_worker: the worker receives the oldest request.
RunWorker(w) ==
    /\ workers[w] = "recv"
    /\ requests # <<>>
    /\ WorkerTurn(w, Head(requests), unpack(Head(requests).data))

\* Another program connects to the endpoint and sends bytes.
StraySend ==
    /\ strays < MaxStrays
    /\ strays' = strays + 1
    /\ requests' = Append(requests, [from |-> 0, data |-> Garbage])
    /\ UNCHANGED <<non_rpc_vars, client_vars, replies, server_vars>>

\* A REQ socket that takes a new request whatever it waits for.
send_fails_Relaxed(sock) == FALSE

\* sock.send on the REQ socket of _socket(): it raises while the socket
\* waits for the reply to the request it sent last.
send_fails(sock) == sock = "sent"

\* Client.__getattr__(name)(args) up to sock.send: _socket() creates the
\* socket of the thread when it has none; send on a REQ socket whose last
\* request has had no reply raises zmq.ZMQError (EFSM), outside the try.
ClientSend(t, name, args) ==
    /\ IsNone(calling[t])
    /\ calls[t] < MaxCalls
    /\ calls' = [calls EXCEPT ![t] = @ + 1]
    /\ IF send_fails(socket_pool[t])
       THEN /\ outcome' = [outcome EXCEPT ![t] =
                  Named(Raised("send", Exc("ZMQError", "EFSM")), name)]
            /\ UNCHANGED <<socket_pool, calling, requests>>
       ELSE /\ socket_pool' = [socket_pool EXCEPT ![t] = "sent"]
            /\ calling' = [calling EXCEPT ![t] = Some([token |-> client_token,
                                                        name |-> name])]
            /\ requests' = Append(requests,
                  [from |-> t,
                   data |-> pack(<<Native(client_token), Native(name),
                                   Native(args)>>).data])
            /\ UNCHANGED outcome
    /\ UNCHANGED <<non_rpc_vars, client_token, strays, replies, server_vars>>

\* What fn makes of the reply (typ, ret).
call_outcome(typ, ret) ==
    IF typ = NORMAL THEN Returned("normal", ret.v)
    ELSE IF typ = EXCEPTION THEN Raised("exception", ret.v)
    ELSE IF typ = TOKEN_ERROR
    THEN Raised("token_error",
                Exc("InvalidTokenError", "token mismatch between client and server"))
    ELSE Raised("type", Exc("ValueError", "unexpected return type"))

\* r is the reply unpacked.
ClientReceived(t, r) ==
    /\ outcome' = [outcome EXCEPT ![t] =
          Named(call_outcome(r.objs[1].v, r.objs[2]), Val(calling[t]).name)]
    /\ replies' = [replies EXCEPT ![t] = Tail(@)]
    /\ socket_pool' = [socket_pool EXCEPT ![t] = "ready"]
    /\ calling' = [calling EXCEPT ![t] = None]
    /\ UNCHANGED <<non_rpc_vars, client_token, calls, strays, requests, server_vars>>

\* sock.recv() returns the reply.
ClientRecv(t) ==
    /\ IsSome(calling[t])
    /\ replies[t] # <<>>
    /\ ClientReceived(t, unpack(Head(replies[t])))

\* sock.recv() raises zmq.ZMQError after RCVTIMEO: the call raises IOError.
\* The socket stays as it is.
ClientTimeout(t) ==
    /\ IsSome(calling[t])
    /\ replies[t] = <<>>
    /\ outcome' = [outcome EXCEPT ![t] =
          Named(Raised("timeout", Exc("OSError", "rpc call timed out")),
                Val(calling[t]).name)]
    /\ calling' = [calling EXCEPT ![t] = None]
    /\ UNCHANGED <<non_rpc_vars, client_token, socket_pool, calls, strays,
                   requests, replies, server_vars>>

\* Client.ping: the call of the function None.
ClientPing(t) == ClientSend(t, None, None)

\* A call of a method by name: getattr of a path, get_object, and foo,
\* which the service does not have.
ClientCall(t) ==
    \/ \E p \in Paths : ClientSend(t, Some("getattr"), p)
    \/ ClientSend(t, Some("get_object"), None)
    \/ ClientSend(t, Some("foo"), None)

InitRpc ==
    /\ InitState({[s \in Sessions |-> Config(MachineA, FALSE, 4, 4)]},
                 {[m \in Machines |-> FileSystem(NoFile)]})
    /\ svc = [s \in Sessions |-> NewService]
    /\ client_token \in {ServerToken, Some("5678")}

NextRpc ==
    \/ \E t \in Threads : ClientPing(t)
    \/ \E t \in Threads : ClientCall(t)
    \/ \E t \in Threads : ClientRecv(t)
    \/ \E t \in Threads : ClientTimeout(t)
    \/ \E w \in Workers : RunWorker(w)
    \/ StraySend

SpecRpc == InitRpc /\ [][NextRpc]_vars

\* The replies in the socket of thread t, unpacked.
ReplyTypes(t) == {unpack(replies[t][i]).objs[1].v : i \in 1..Len(replies[t])}

\* C18: a request whose token is not the server's makes no method of the
\* service run: the worker answers it with TOKEN_ERROR, and the client call
\* that receives the answer (a ping as well) raises InvalidTokenError; what
\* is dispatched has the server's token.
C18_TokenGate ==
    /\ \A d \in dispatched : d[1] = ServerToken
    /\ client_token # ServerToken =>
          /\ dispatched = {}
          /\ \A t \in Threads :
                /\ ReplyTypes(t) \subseteq {TOKEN_ERROR}
                /\ outcome[t].via \in {"normal", "exception", "token_error"} =>
                      /\ outcome[t].via = "token_error"
                      /\ Val(outcome[t].raised).name = "InvalidTokenError"
    /\ client_token = ServerToken =>
          \A t \in Threads :
              /\ TOKEN_ERROR \notin ReplyTypes(t)
              /\ outcome[t].via # "token_error"

\* With the wrong token a ping and a getattr were answered by the workers
\* and both raised InvalidTokenError; no method ran.
C18_Witness ==
    /\ client_token # ServerToken
    /\ outcome[1].via = "token_error" /\ outcome[1].name = Some(None)
    /\ outcome[2].via = "token_error" /\ outcome[2].name = Some(Some("getattr"))
    /\ taken[1] + taken[2] >= 2
    /\ dispatched = {}

\* C19: every call through the client, a call by a thread one of whose
\* earlier calls timed out included, ends in one of four ways: it returns
\* the value of a NORMAL reply, raises the exception of an EXCEPTION reply,
\* raises InvalidTokenError on TOKEN_ERROR, or raises the I/O error of the
\* socket timeout.
C19_FourOutcomes ==
    \A t \in Threads :
        \/ outcome[t].via = "none"
        \/ outcome[t].via = "normal" /\ IsSome(outcome[t].value)
        \/ outcome[t].via = "exception" /\ IsSome(outcome[t].raised)
        \/ /\ outcome[t].via = "token_error"
           /\ Val(outcome[t].raised).name = "InvalidTokenError"
        \/ /\ outcome[t].via = "timeout"
           /\ Val(outcome[t].raised).name = "OSError"

\* The replies the workers have sent and the requests they have received.
Answered == answered[1] + answered[2]
Taken == taken[1] + taken[2]

\* C20: every worker answers each request it receives with one reply and
\* goes on to wait for the next one: a missing method and a method that
\* raises are answered with an EXCEPTION reply, and neither a request that
\* cannot be decoded nor a result that cannot be encoded stops the worker.
C20_OneReplyEach ==
    \A w \in Workers :
        /\ workers[w] = "recv"
        /\ answered[w] = taken[w]

---------------------------------------------------------------------------
(* The FUSE bindings (filesystem/fuse/__init__.py): every callback handed  *)
(* to libfuse is an _op_ method wrapped by FUSE._wrap_operation.           *)

\* errno.ENOENT, EIO, EACCES, EINVAL, ENOSYS
ENOENT == 2
EIO == 5
EACCES == 13
EINVAL == 22
ENOSYS == 38

\* The arguments of an exception: Python ints and strings.
PyInt(n) == [t |-> "int", v |-> n]
PyStr(s) == [t |-> "str", v |-> s]
PyExc(name, args) == [name |-> name, args |-> args]

\* The classes for which issubclass(cls, OSError) holds (IOError is
\* OSError), and those for which issubclass(cls, Exception) holds.
OSErrorClasses ==
    {"OSError", "FileNotFoundError", "PermissionError", "IsADirectoryError"}
ExceptionClasses ==
    OSErrorClasses \cup {"Exception", "NotImplementedError", "RuntimeError",
                         "InvalidTokenError", "ValueError", "AssertionError",
                         "TypeError", "AttributeError"}

\* OSError.errno as the constructor of OSError sets it: the first of two
\* to five arguments, None otherwise.
oserror_errno(args) == IF Len(args) \in 2..5 THEN Some(args[1]) ELSE None

\* What fn (the _op_ method) did: it returned value (None or an int) or
\* raised error.
FnReturns(value) == [error |-> None, ok |-> TRUE, value |-> value]
FnRaises(exc) == [error |-> Some(exc), ok |-> FALSE, value |-> None]

\* What the wrapped callback did: it returned n to libfuse, or exc left it.
WrapperReturns(n) == [ret |-> Some(n), escaped |-> None]
WrapperEscapes(exc) == [ret |-> None, escaped |-> Some(exc)]

\* The except OSError clause of the wrapper: "if e.errno" is false for
\* None and for 0, and -e.errno raises TypeError when errno is no number.
wrap_oserror(errno) ==
    IF IsNone(errno) THEN WrapperReturns(-EIO)
    ELSE IF Val(errno).t = "int"
    THEN (IF Val(errno).v # 0 THEN WrapperReturns(-Val(errno).v)
          ELSE WrapperReturns(-EIO))
    ELSE IF Val(errno).v = "" THEN WrapperReturns(-EIO)
    ELSE WrapperEscapes(PyExc("TypeError", <<PyStr("bad operand type for unary -")>>))

\* A wrapper that answers every OSError with -EIO.
wrap_operation_AlwaysEio(r) ==
    IF r.ok THEN WrapperReturns(IF IsNone(r.value) THEN 0 ELSE Val(r.value))
    ELSE IF Val(r.error).name = "NotImplementedError" THEN WrapperReturns(-ENOSYS)
    ELSE WrapperReturns(-EIO)

\* FUSE._wrap_operation: wrapper(*args) when fn(*args) did r.
wrap_operation(r) ==
    IF r.ok THEN WrapperReturns(IF IsNone(r.value) THEN 0 ELSE Val(r.value))
    ELSE IF Val(r.error).name \in OSErrorClasses
    THEN wrap_oserror(oserror_errno(Val(r.error).args))
    ELSE IF Val(r.error).name = "NotImplementedError" THEN WrapperReturns(-ENOSYS)
    ELSE IF Val(r.error).name \in ExceptionClasses THEN WrapperReturns(-EIO)
    ELSE WrapperEscapes(Val(r.error))

\* The callbacks that return nothing (_op_getattr, _op_readlink, _op_open,
\* _op_mkdir, _op_release, ...): failure is what the operation of the file
\* system raised, None when it returned.
op_void(failure) ==
    IF IsSome(failure) THEN FnRaises(Val(failure)) ELSE FnReturns(None)

\* FUSE._op_read: the operation returned data for a read of length bytes (the size argument).
op_read(failure, data, length) ==
    IF IsSome(failure) THEN FnRaises(Val(failure))
    ELSE IF Len(data) > length THEN FnRaises(PyExc("AssertionError", <<>>))
    ELSE FnReturns(Some(Len(data)))

\* FUSE._op_write and _op_lseek: the int the operation returned is returned.
op_write(failure, n) ==
    IF IsSome(failure) THEN FnRaises(Val(failure)) ELSE FnReturns(Some(n))

\* FUSE._op_rename: renameat2 flags are refused.
op_rename(flags, failure) ==
    IF flags # 0
    THEN FnRaises(PyExc("OSError", <<PyInt(EINVAL), PyStr("Invalid argument")>>))
    ELSE op_void(failure)

\* What an operation of the mounted file system can raise: the errors of
\* the local machine's os calls, rebuilt by the RPC client with their
\* (errno, strerror) arguments; OSError(errno.EINVAL) of the cached
\* readlink, whose errno attribute is None; IOError("rpc call timed out");
\* InvalidTokenError and ValueError of the RPC client; the ValueError of
\* the cache; the Exception that stands for a class the client does not
\* know; NotImplementedError of an operation that is not overridden.
OperationFailures ==
    {PyExc("FileNotFoundError", <<PyInt(ENOENT), PyStr("No such file or directory")>>),
     PyExc("PermissionError", <<PyInt(EACCES), PyStr("Permission denied")>>),
     PyExc("OSError", <<PyInt(EINVAL), PyStr("Invalid argument")>>),
     PyExc("OSError", <<PyInt(EINVAL)>>),
     PyExc("OSError", <<PyStr("rpc call timed out")>>),
     PyExc("OSError", <<>>),
     PyExc("NotImplementedError", <<>>),
     PyExc("InvalidTokenError", <<PyStr("token mismatch between client and server")>>),
     PyExc("ValueError", <<PyStr("entry is missing attributes")>>),
     PyExc("RuntimeError", <<>>),
     PyExc("Exception", <<PyStr("error")>>)}

\* What an operation did: it returned (None) or raised one of the above.
Failures == {None} \cup {Some(e) : e \in OperationFailures}

\* libfuse calls the wrapped callback name: fn did r, and the wrapper hands
\* libfuse an integer or lets an exception go.
FuseCallback(name, r) ==
    /\ fuse_ret' = [name |-> name, r |-> r,
                    ret |-> wrap_operation(r).ret,
                    escaped |-> wrap_operation(r).escaped]
    /\ UNCHANGED <<core_vars, lockindex_vars, ops_vars>>

\* The callbacks of operations that return nothing to libfuse.
VoidCallbacks == {"getattr", "readlink", "open", "mkdir", "release", "flush"}

OpVoid == \E name \in VoidCallbacks : \E failure \in Failures :
    FuseCallback(name, op_void(failure))

\* read of a regular file of the local machine: the operation returns its
\* data, cut to the size asked for or (a faulty file system) whole.
OpRead == \E p \in Paths : \E length \in 0..2 : \E failure \in Failures :
    /\ Exists(Fs(1), p) /\ S_ISREG(Fs(1)[p].st_mode)
    /\ FuseCallback("read", op_read(failure, Fs(1)[p].data, length))

OpWrite == \E n \in 0..3 : \E failure \in Failures :
    FuseCallback("write", op_write(failure, n))

OpRename == \E flags \in 0..1 : \E failure \in Failures :
    FuseCallback("rename", op_rename(flags, failure))

InitFuse == InitFront

NextFuse == OpVoid \/ OpRead \/ OpWrite \/ OpRename

SpecFuse == InitFuse /\ [][NextFuse]_vars

\* The OSError raised carries an errno: it was built from two to five
\* arguments, the first of them a number other than 0.
HasErrno(exc) ==
    /\ Len(exc.args) \in 2..5
    /\ exc.args[1].t = "int"
    /\ exc.args[1].v # 0

\* The integer the claim gives for what fn did.
Expected(r) ==
    IF r.ok THEN (IF IsNone(r.value) THEN 0 ELSE Val(r.value))
    ELSE IF Val(r.error).name = "NotImplementedError" THEN -ENOSYS
    ELSE IF Val(r.error).name \in OSErrorClasses /\ HasErrno(Val(r.error))
    THEN -Val(r.error).args[1].v
    ELSE -EIO

\* C21: every callback returns an integer to libfuse and no exception
\* leaves it: the result of the operation (0 when it returns nothing),
\* -errno for an OSError with errno set, -ENOSYS for NotImplementedError,
\* and -EIO for an OSError without errno and for every other exception.
C21_CallbackReturnsInt ==
    fuse_ret.name # "" =>
        /\ IsNone(fuse_ret.escaped)
        /\ IsSome(fuse_ret.ret)
        /\ Val(fuse_ret.ret) \in Int
        /\ Val(fuse_ret.ret) = Expected(fuse_ret.r)

\* readlink raised the OSError(errno.EINVAL) of the cached readlink, which
\* has no errno, and the callback returned -EIO.
C21_Witness ==
    /\ fuse_ret.name = "readlink"
    /\ ~fuse_ret.r.ok
    /\ Val(fuse_ret.r.error) = PyExc("OSError", <<PyInt(EINVAL)>>)
    /\ fuse_ret.ret = Some(-EIO)

---------------------------------------------------------------------------
(* LockIndex (caching/common.py): threads enter and leave the context      *)
(* manager LockIndex.lock, nested and on the same keys.  The two blocks    *)
(* under _global_lock are one step each.                                   *)

LockKeys == {"a", "b"}

\* The first block of lock(): the user count of the key goes up and the
\* mutex of the key is looked up; both dicts are defaultdicts, so a key
\* that is not there gets the count 0 and a new threading.Lock.
lock_enter(st, key) ==
    [locks |-> IF key \in DOMAIN st.locks THEN st.locks
               ELSE Put(st.locks, key, Len(st.mutexes) + 1),
     lock_users |-> Put(st.lock_users, key,
                        IF key \in DOMAIN st.lock_users
                        THEN st.lock_users[key] + 1 ELSE 1),
     mutexes |-> IF key \in DOMAIN st.locks THEN st.mutexes
                 ELSE Append(st.mutexes, 0)]

\* lock.acquire(blocking) by thread t on mutex m: whether it returns now,
\* and what it returns.
acquire_returns(ms, m, blocking) == ms[m] = 0 \/ ~blocking
acquire(ms, m, t) ==
    IF ms[m] = 0 THEN [acquired |-> TRUE, mutexes |-> [ms EXCEPT ![m] = t]]
    ELSE [acquired |-> FALSE, mutexes |-> ms]

\* An exit that releases the mutex whether or not it was acquired.
release_Unconditional(ms, frame) == [ms EXCEPT ![frame.lock] = 0]

\* The head of the finally block: "if acquired: lock.release()".
release(ms, frame) ==
    IF frame.acquired THEN [ms EXCEPT ![frame.lock] = 0] ELSE ms

\* An exit that keeps the mutex of a key nobody uses any more.
lock_exit_NeverDelete(st, key) ==
    [locks |-> st.locks,
     lock_users |-> Put(st.lock_users, key, st.lock_users[key] - 1)]

\* The last block of lock(): the user count goes down, and the count and
\* the mutex of the key are deleted when it reaches 0.
lock_exit(st, key) ==
    IF st.lock_users[key] - 1 = 0
    THEN [locks |-> Del(st.locks, key), lock_users |-> Del(st.lock_users, key)]
    ELSE [locks |-> st.locks,
          lock_users |-> Put(st.lock_users, key, st.lock_users[key] - 1)]

\* LockIndex.lock_count
lock_count == Cardinality(DOMAIN locks)

Top(t) == frames[t][Len(frames[t])]
SetTop(t, f) == [frames EXCEPT ![t][Len(frames[t])] = f]

\* Thread t calls lock(key, blocking), at top level or inside the body of
\* the lock() it is in.
LockEnter(t, key, blocking) ==
    LET st == lock_enter([locks |-> locks, lock_users |-> lock_users,
                          mutexes |-> mutexes], key)
    IN
    /\ Len(frames[t]) < MaxDepth
    /\ frames[t] # << >> => Top(t).pc = "body"
    /\ Len(st.mutexes) <= MaxMutexes
    /\ locks' = st.locks
    /\ lock_users' = st.lock_users
    /\ mutexes' = st.mutexes
    /\ frames' = [frames EXCEPT ![t] =
                     Append(@, [key |-> key, blocking |-> blocking,
                                lock |-> st.locks[key], pc |-> "acquire",
                                acquired |-> FALSE])]
    /\ UNCHANGED <<core_vars, fuse_vars, ops_vars>>

\* lock.acquire(blocking) returns and the body of the with statement
\* starts; a blocking acquire of a mutex that is held does not return.
LockAcquire(t) ==
    /\ frames[t] # << >>
    /\ Top(t).pc = "acquire"
    /\ acquire_returns(mutexes, Top(t).lock, Top(t).blocking)
    /\ mutexes' = acquire(mutexes, Top(t).lock, t).mutexes
    /\ frames' = SetTop(t, [Top(t) EXCEPT
                               !.pc = "body",
                               !.acquired = acquire(mutexes, Top(t).lock, t).acquired])
    /\ UNCHANGED <<core_vars, fuse_vars, ops_vars, locks, lock_users>>

\* The body ends: the mutex is released if it was acquired.
LockRelease(t) ==
    /\ frames[t] # << >>
    /\ Top(t).pc = "body"
    /\ mutexes' = release(mutexes, Top(t))
    /\ frames' = SetTop(t, [Top(t) EXCEPT !.pc = "exit"])
    /\ UNCHANGED <<core_vars, fuse_vars, ops_vars, locks, lock_users>>

\* The thread leaves lock().
LockExit(t) ==
    LET st == lock_exit([locks |-> locks, lock_users |-> lock_users], Top(t).key)
    IN
    /\ frames[t] # << >>
    /\ Top(t).pc = "exit"
    /\ locks' = st.locks
    /\ lock_users' = st.lock_users
    /\ frames' = [frames EXCEPT ![t] = SubSeq(@, 1, Len(@) - 1)]
    /\ UNCHANGED <<core_vars, fuse_vars, ops_vars, mutexes>>

InitLockIndex ==
    /\ InitFront
    /\ \A m \in Machines : files[m] = FileSystem(PlainL)

NextLockIndex ==
    \/ \E t \in Threads : \E key \in LockKeys : \E blocking \in BOOLEAN :
          LockEnter(t, key, blocking)
    \/ \E t \in Threads : LockAcquire(t)
    \/ \E t \in Threads : LockRelease(t)
    \/ \E t \in Threads : LockExit(t)

SpecLockIndex == InitLockIndex /\ [][NextLockIndex]_vars

\* The calls of lock(key) thread t is inside, and their number over all
\* threads: a thread is inside from the block that counts it in to the
\* block that counts it out.
FramesOf(t, key) == {i \in DOMAIN frames[t] : frames[t][i].key = key}
RECURSIVE CountFrames(_, _)
CountFrames(T, key) ==
    IF T = {} THEN 0
    ELSE LET t == CHOOSE x \in T : TRUE
         IN  Cardinality(FramesOf(t, key)) + CountFrames(T \ {t}, key)
InUse == {key \in LockKeys : CountFrames(Threads, key) > 0}

\* C22: the keys of the lock map are exactly the keys some thread holds,
\* waits for or attempts, each with the number of its users; lock_count is
\* the number of keys in use and is 0 when no thread is inside lock().
C22_LocksAreKeysInUse ==
    /\ DOMAIN locks = InUse
    /\ DOMAIN lock_users = InUse
    /\ \A key \in InUse : lock_users[key] = CountFrames(Threads, key)
    /\ lock_count = Cardinality(InUse)
    /\ (\A t \in Threads : frames[t] = << >>) => lock_count = 0

\* All the mutexes of the run have been made and deleted again: nobody is
\* inside lock() and the map is empty.
C22_Witness ==
    /\ Len(mutexes) = MaxMutexes
    /\ \A t \in Threads : frames[t] = << >>
    /\ lock_count = 0

\* The threads that have acquired the mutex of key.
Holders(key) ==
    {t \in Threads : \E i \in FramesOf(t, key) :
        frames[t][i].pc = "body" /\ frames[t][i].acquired}

\* C26: at most one thread at a time has acquired the mutex of a key; the
\* mutex a thread holds stays its own until it releases it, whatever failed
\* attempts do; and the mutex a thread holds or waits for stays the mutex
\* of the key in the map.
C26_OneHolderPerKey ==
    /\ \A key \in LockKeys : Cardinality(Holders(key)) <= 1
    /\ \A t \in Threads : \A i \in DOMAIN frames[t] :
          LET f == frames[t][i] IN
          /\ (f.pc = "body" /\ f.acquired) =>
                /\ mutexes[f.lock] = t
                /\ Cardinality({j \in FramesOf(t, f.key) :
                                   frames[t][j].pc = "body" /\ frames[t][j].acquired}) = 1
          /\ f.pc \in {"acquire", "body"} =>
                f.key \in DOMAIN locks /\ locks[f.key] = f.lock

\* Thread 1 holds the mutex of "a" while thread 2, whose non-blocking
\* attempt on "a" failed, has left its body.
C26_Witness ==
    /\ frames[1] # << >> /\ frames[2] # << >>
    /\ frames[1][1].key = "a" /\ frames[1][1].pc = "body" /\ frames[1][1].acquired
    /\ frames[2][1].key = "a" /\ frames[2][1].pc = "exit" /\ ~frames[2][1].acquired
    /\ mutexes[frames[1][1].lock] = 1

---------------------------------------------------------------------------
(* Two sessions with prefetching, one after the other on one cache         *)
(* directory: the second loads what the first saved.  /l is a symlink to   *)
(* /m.py, so the metadata of /m.py comes with that of /l.                  *)

InitAccess ==
    InitWith({[s \in Sessions |-> Config(MachineA, TRUE, 4, 4)]},
             {[m \in Machines |-> FileSystem(LinkL)]})

\* The session whose turn it is: session 2 starts when session 1 has saved.
Running == IF phase[1] = "done" THEN {2} ELSE {1}

NextAccess ==
    \/ Tick
    \/ MetadataStep(Running, {1}, Paths)
    \/ ContentsStep(Running \ {1}, {1}, {PathPy})
    \/ SyncStep(Running)
    \/ DiskStep(Running, {TRUE})
    \/ WriteStep({MachineA}, {PathPy})

SpecAccess == InitAccess /\ [][NextAccess]_vars

\* The keys session s has an entry for before and after the step.
KeptKeys(s) == DOMAIN entries[s] \cap DOMAIN entries'[s]

\* C23: from load to save, no step lowers the last_access of an entry the
\* session has, and a step that changes it (a lookup) sets it to the
\* current time.
C23_LastAccessNeverDecreases ==
    [][\A s \in Sessions :
          (Active(s) /\ Active(s)') =>
              \A k \in KeptKeys(s) :
                  /\ entries'[s][k].last_access >= entries[s][k].last_access
                  /\ entries'[s][k].last_access # entries[s][k].last_access =>
                        entries'[s][k].last_access = clock]_vars

\* The entry of /m.py came as a prefetch with the metadata of /l, with
\* last_access 0, and a later lookup has set its last_access to the time 1.
C23_Witness ==
    /\ phase[1] = "run"
    /\ clock = 1
    /\ created_by[1][PathPy] = "prefetch"
    /\ meta_fetches[1][PathPy] = 0
    /\ Key(1, PathPy) \in DOMAIN entries[1]
    /\ entries[1][Key(1, PathPy)].last_access = 1

\* ---------------------------------------------------------------------------
\* The event queue of a session (operations/events.py).

\* The Event types the two sides post; EXCEPTION carries an exception.
Events == {"TOKEN_READ", "ROOT_FILESYSTEM_MOUNT", "PROGRAM_EXIT", "EXCEPTION"}

PyNone == [t |-> "None", v |-> 0]

\* UnexpectedEvent(message, expected_event, actual_event, actual_value).
UnexpectedEvent(expected_event, actual_event, actual_value) ==
    [name |-> "UnexpectedEvent",
     args |-> <<"expected", expected_event, "but got", actual_event>>,
     expected_event |-> expected_event,
     actual_event |-> actual_event,
     actual_value |-> actual_value]

\* EventQueue.notify: queue.put((event, value)).
notify(q, event, value) == Append(q, [event |-> event, value |-> value])

\* EventQueue.exception: an Exception is posted as it is, a str inside a
\* RuntimeError.
exception(q, e) ==
    IF e.t = "exc"
    THEN notify(q, "EXCEPTION", e.v)
    ELSE notify(q, "EXCEPTION", PyExc("RuntimeError", <<e>>))

\* queue.Queue.get: the oldest item, which leaves the queue.
queue_get_Lifo(q) == [item |-> q[Len(q)], rest |-> SubSeq(q, 1, Len(q) - 1)]

queue_get(q) == [item |-> Head(q), rest |-> Tail(q)]

ExpectReturns(value) == [kind |-> "return", value |-> value]
ExpectRaises(e) == [kind |-> "raise", value |-> e]

\* EventQueue.expect once queue.get has given (event, value).
expect(item, expected_event) ==
    IF item.event = expected_event
    THEN ExpectReturns(item.value)
    ELSE IF item.event = "EXCEPTION"
    THEN ExpectRaises(item.value)
    ELSE ExpectRaises(UnexpectedEvent(expected_event, item.event, item.value))

\* The queue and its history after a post.
Post(q) ==
    /\ event_queue' = q
    /\ posted' = Append(posted, q[Len(q)])

\* The queue and its history after expect(expected_event) ended as r.
Expected_(got, expected_event, r) ==
    /\ event_queue' = got.rest
    /\ expects' = Append(expects, [expected |-> expected_event, kind |-> r.kind,
                                   value |-> r.value])

MaxEvents == 3

EventValues == {PyNone, PyInt(0), PyInt(1)}
Posters == {PyStr("boom"), [t |-> "exc", v |-> PyExc("OSError", <<PyInt(5)>>)]}

rest_vars == <<run, ssh, ssh_wrote, pipe, out_writer, skimmer, forwarded,
               started>>

Notify(event, value) ==
    /\ Len(posted) < MaxEvents
    /\ Post(notify(event_queue, event, value))
    /\ UNCHANGED <<core_vars, fuse_vars, lockindex_vars, rest_vars, expects>>

PostException(e) ==
    /\ Len(posted) < MaxEvents
    /\ Post(exception(event_queue, e))
    /\ UNCHANGED <<core_vars, fuse_vars, lockindex_vars, rest_vars, expects>>

\* expect blocks while the queue is empty.
Expect(expected_event) ==
    /\ event_queue # << >>
    /\ Expected_(queue_get(event_queue), expected_event,
                 expect(queue_get(event_queue).item, expected_event))
    /\ UNCHANGED <<core_vars, fuse_vars, lockindex_vars, rest_vars, posted>>

InitEvents == InitFront

NextEvents ==
    \/ \E event \in Events \ {"EXCEPTION"}, value \in EventValues :
           Notify(event, value)
    \/ \E e \in Posters : PostException(e)
    \/ \E expected_event \in Events : Expect(expected_event)

SpecEvents == InitEvents /\ [][NextEvents]_vars

\* What the i-th call of expect has to give, when the i-th event posted is e.
Consumed(e, x) ==
    IF e.event = x.expected
    THEN x.kind = "return" /\ x.value = e.value
    ELSE IF e.event = "EXCEPTION"
    THEN x.kind = "raise" /\ x.value = e.value
    ELSE /\ x.kind = "raise"
         /\ x.value.name = "UnexpectedEvent"
         /\ x.value.expected_event = x.expected
         /\ x.value.actual_event = e.event
         /\ x.value.actual_value = e.value

\* C25: every call of expect takes exactly one event off the queue, in the
\* order of posting: the i-th call ends on the i-th event posted, and the
\* queue holds the events posted after it. The call returns the value of the
\* event if its type is the expected one, raises the exception the event
\* carries if it is an EXCEPTION event, and else raises UnexpectedEvent with
\* the expected type, the actual type and the actual value.
C25_ExpectTakesOneEventInOrder ==
    /\ Len(expects) <= Len(posted)
    /\ event_queue = SubSeq(posted, Len(expects) + 1, Len(posted))
    /\ \A i \in 1..Len(expects) : Consumed(posted[i], expects[i])

\* Three calls after three posts: one returned a value, one raised the
\* exception posted, one raised UnexpectedEvent.
C25_Witness ==
    /\ Len(expects) = 3
    /\ expects[1].kind = "return" /\ expects[1].value = PyInt(1)
    /\ expects[2].kind = "raise" /\ expects[2].value.name = "RuntimeError"
    /\ expects[3].kind = "raise" /\ expects[3].value.name = "UnexpectedEvent"

\* ---------------------------------------------------------------------------
\* The local side of a session: LocalOperations._run, the token skimmer and
\* the thread that watches ssh (operations/local.py).

SOH == 1
STX == 2

\* bytes.decode() and str.encode() (UTF-8, strict) for one- and two-byte
\* characters; a string is the sequence of its code points. Any other byte
\* in the place of a first byte, and a two-byte character cut short, raise
\* UnicodeDecodeError.
IsLead(byte) == byte >= 194 /\ byte <= 223
IsContinuation(byte) == byte >= 128 /\ byte <= 191

\* The code point that starts at byte i, or -1 at the second byte of one.
CodePoints(b) ==
    [i \in 1..Len(b) |->
        IF b[i] < 128 THEN b[i]
        ELSE IF IsLead(b[i]) THEN (b[i] - 192) * 64 + (b[i + 1] - 128)
        ELSE 0 - 1]
IsCodePoint(c) == c >= 0

decode(b) ==
    IF \A i \in 1..Len(b) :
          \/ b[i] < 128
          \/ IsLead(b[i]) /\ i < Len(b) /\ IsContinuation(b[i + 1])
          \/ IsContinuation(b[i]) /\ i > 1 /\ IsLead(b[i - 1])
    THEN [ok |-> TRUE, str |-> SelectSeq(CodePoints(b), IsCodePoint)]
    ELSE [ok |-> FALSE, str |-> << >>]

RECURSIVE EncodeFrom(_, _, _)
EncodeFrom(str, i, b) ==
    IF i > Len(str)
    THEN b
    ELSE IF str[i] < 128
    THEN EncodeFrom(str, i + 1, Append(b, str[i]))
    ELSE EncodeFrom(str, i + 1,
                    b \o <<192 + (str[i] \div 64), 128 + (str[i] % 64)>>)

encode(str) == EncodeFrom(str, 1, << >>)

\* The 64 hexadecimal digits hashlib.sha256(data).hexdigest() gives. The
\* digest is not computed: its stand-in writes the first 32 bytes of data
\* (padded with zero bytes) in hexadecimal, so that different tokens have
\* different digests.
HexDigit(n) == IF n < 10 THEN 48 + n ELSE 87 + n
DigestLen == 64
hexdigest(data) ==
    [i \in 1..DigestLen |->
        LET k == (i + 1) \div 2
            byte == IF k <= Len(data) THEN data[k] ELSE 0
        IN  HexDigit(IF i % 2 = 1 THEN byte \div 16 ELSE byte % 16)]

TokenLen == 32

\* What the skimmer does with the bytes buf it read between SOH and STX:
\* it raises (a decode failed), posts TOKEN_READ with the token, or posts the
\* exception.
skim_token(buf) ==
    LET token == decode(SubSeq(buf, 1, IF Len(buf) < TokenLen THEN Len(buf)
                                       ELSE TokenLen))
        token_checksum == decode(SubSeq(buf, TokenLen + 1, Len(buf)))
    IN  IF ~token.ok \/ ~token_checksum.ok
        THEN [raised |-> TRUE, valid |-> FALSE, token |-> << >>]
        ELSE [raised |-> FALSE,
              valid |-> token_checksum.str = hexdigest(encode(token.str)),
              token |-> token.str]

\* The index of the first symbol in b, or 0.
Find(b, symbol, i) ==
    IF \E k \in i..Len(b) : b[k] = symbol
    THEN CHOOSE k \in i..Len(b) :
             b[k] = symbol /\ \A j \in i..(k - 1) : b[j] # symbol
    ELSE 0

\* os.read gives b"" only at the end of the stream: the pipe is empty and
\* every write end is closed, the one of ssh and the one _run holds.
AtEof == pipe = << >> /\ ~out_writer /\ ssh # "running"

RuntimeError(message) == PyExc("RuntimeError", <<PyStr(message)>>)
HandshakeFailed == "handshake failed (invalid token checksum)"

ServiceNames == {"environment", "filesystem", "cache"}
ExitCodes == {0, 1, 255}
SIGTERM == 15

\* The exit stack of run() unwinds when _run ends: ssh is terminated, the
\* watcher (joined next) posts how ssh ended, and the write end is closed.
Cleanup(q) ==
    /\ out_writer' = FALSE
    /\ ssh' = IF ssh = "running" THEN "exited" ELSE ssh
    /\ event_queue' = IF ssh = "running"
                      THEN notify(q, "PROGRAM_EXIT", PyInt(0 - SIGTERM))
                      ELSE q
    /\ posted' = IF ssh = "running"
                 THEN Append(posted, [event |-> "PROGRAM_EXIT",
                                      value |-> PyInt(0 - SIGTERM)])
                 ELSE posted

\* _run up to its first expect: the pipe, the skimmer thread, ssh and the
\* thread that watches it.
RunStart(cache) ==
    /\ run.pc = "new"
    /\ run' = [pc |-> "expect_token", cache |-> cache, result |-> None]
    /\ out_writer' = TRUE
    /\ skimmer' = [pc |-> "soh", buf |-> << >>]
    /\ ssh' = "running"
    /\ UNCHANGED <<core_vars, fuse_vars, lockindex_vars, queue_vars, ssh_wrote,
                   pipe, forwarded, started>>

\* _start_ssh raises: there is no ssh to run.
RunSshMissing(cache) ==
    /\ run.pc = "new"
    /\ run' = [pc |-> "done", cache |-> cache,
               result |-> Some(ExpectRaises(RuntimeError("failed to start ssh")))]
    /\ skimmer' = [pc |-> "soh", buf |-> << >>]
    /\ Cleanup(event_queue)
    /\ UNCHANGED <<core_vars, fuse_vars, lockindex_vars, expects, ssh_wrote,
                   pipe, forwarded, started>>

\* ssh writes the output of the remote side to its stdout.
SshWrite(stream) ==
    /\ ssh = "running"
    /\ ssh_wrote = None
    /\ ssh_wrote' = Some(stream)
    /\ pipe' = pipe \o stream
    /\ UNCHANGED <<core_vars, fuse_vars, lockindex_vars, queue_vars, run, ssh,
                   out_writer, skimmer, forwarded, started>>

\* _watch_ssh: ssh ends by itself with the return code given.
SshExit(returncode) ==
    /\ ssh = "running"
    /\ ssh' = "exited"
    /\ IF returncode = 255
       THEN Post(exception(event_queue, PyStr("ssh failed")))
       ELSE Post(notify(event_queue, "PROGRAM_EXIT", PyInt(returncode)))
    /\ UNCHANGED <<core_vars, fuse_vars, lockindex_vars, expects, run,
                   ssh_wrote, pipe, out_writer, skimmer, forwarded, started>>

\* _read_until_symbol(SOH, _write_stdout): what is there is forwarded, up to
\* SOH or the end of the stream.
SkimForward ==
    /\ skimmer.pc = "soh"
    /\ pipe # << >> \/ AtEof
    /\ LET k == Find(pipe, SOH, 1)
       IN  /\ forwarded' = forwarded \o
                   SubSeq(pipe, 1, IF k = 0 THEN Len(pipe) ELSE k - 1)
           /\ pipe' = IF k = 0 THEN << >> ELSE SubSeq(pipe, k + 1, Len(pipe))
           /\ skimmer' = [skimmer EXCEPT
                  !.pc = IF k # 0 \/ pipe = << >> THEN "token" ELSE "soh"]
    /\ UNCHANGED <<core_vars, fuse_vars, lockindex_vars, queue_vars, run, ssh,
                   ssh_wrote, out_writer, started>>

\* _read_until_symbol(STX, buf_bytes.append) and, once STX or the end of the
\* stream is there, the check of the token.
SkimToken ==
    /\ skimmer.pc = "token"
    /\ pipe # << >> \/ AtEof
    /\ LET k == Find(pipe, STX, 1)
           buf == skimmer.buf \o
                    SubSeq(pipe, 1, IF k = 0 THEN Len(pipe) ELSE k - 1)
           r == skim_token(buf)
       IN  /\ pipe' = IF k = 0 THEN << >> ELSE SubSeq(pipe, k + 1, Len(pipe))
           /\ IF k = 0 /\ pipe # << >>
              THEN /\ skimmer' = [skimmer EXCEPT !.buf = buf]
                   /\ UNCHANGED <<queue_vars, forwarded>>
              ELSE IF r.raised
              THEN /\ skimmer' = [pc |-> "crashed", buf |-> buf]
                   /\ UNCHANGED <<queue_vars, forwarded>>
              ELSE IF r.valid
              THEN /\ skimmer' = [pc |-> "pass", buf |-> buf]
                   /\ Post(notify(event_queue, "TOKEN_READ", PyStr(r.token)))
                   /\ UNCHANGED <<expects, forwarded>>
              ELSE /\ skimmer' = [pc |-> "pass", buf |-> buf]
                   /\ Post(exception(event_queue, PyStr(HandshakeFailed)))
                   /\ forwarded' = forwarded \o buf
                   /\ UNCHANGED expects
    /\ UNCHANGED <<core_vars, fuse_vars, lockindex_vars, run, ssh, ssh_wrote,
                   out_writer, started>>

\* The loop that passes the rest of the output through.
SkimPass ==
    /\ skimmer.pc = "pass"
    /\ pipe # << >> \/ AtEof
    /\ forwarded' = forwarded \o pipe
    /\ pipe' = << >>
    /\ skimmer' = [skimmer EXCEPT !.pc = IF pipe = << >> THEN "done" ELSE "pass"]
    /\ UNCHANGED <<core_vars, fuse_vars, lockindex_vars, queue_vars, run, ssh,
                   ssh_wrote, out_writer, started>>

\* _run from events.expect(TOKEN_READ) to the next expect: the services are
\* started with the token, or _run ends with an exception.
RunExpectToken ==
    /\ run.pc = "expect_token"
    /\ event_queue # << >>
    /\ LET got == queue_get(event_queue)
           r == expect(got.item, "TOKEN_READ")
       IN  /\ expects' = Append(expects, [expected |-> "TOKEN_READ",
                                          kind |-> r.kind, value |-> r.value])
           /\ IF r.kind = "return"
              THEN /\ started' = {"environment", "filesystem"} \cup
                                 (IF run.cache THEN {"cache"} ELSE {})
                   /\ run' = [run EXCEPT !.pc = "expect_exit"]
                   /\ event_queue' = got.rest
                   /\ UNCHANGED <<posted, ssh, out_writer>>
              ELSE /\ run' = [run EXCEPT !.pc = "done", !.result =
                       Some(IF r.value.name = "UnexpectedEvent"
                               /\ r.value.actual_event = "PROGRAM_EXIT"
                            THEN ExpectRaises(
                                RuntimeError("remote outrun failed to start"))
                            ELSE r)]
                   /\ Cleanup(got.rest)
                   /\ UNCHANGED started
    /\ UNCHANGED <<core_vars, fuse_vars, lockindex_vars, ssh_wrote, pipe,
                   skimmer, forwarded>>

\* _run from events.expect(PROGRAM_EXIT) to its end.
RunExpectExit ==
    /\ run.pc = "expect_exit"
    /\ event_queue # << >>
    /\ LET got == queue_get(event_queue)
           r == expect(got.item, "PROGRAM_EXIT")
       IN  /\ expects' = Append(expects, [expected |-> "PROGRAM_EXIT",
                                          kind |-> r.kind, value |-> r.value])
           /\ run' = [run EXCEPT !.pc = "done", !.result = Some(r)]
           /\ Cleanup(got.rest)
    /\ UNCHANGED <<core_vars, fuse_vars, lockindex_vars, ssh_wrote, pipe,
                   skimmer, forwarded, started>>

ServiceFailed(name) ==
    PyStr(CASE name = "environment" -> "environment service failed"
            [] name = "filesystem" -> "filesystem service failed"
            [] name = "cache" -> "cache service failed")

\* _run_environment_service and the like: serve raises, or returns.
ServiceFails(name) ==
    /\ name \in started
    /\ \A i \in 1..Len(posted) :
           posted[i].event = "EXCEPTION" =>
               posted[i].value.args # <<ServiceFailed(name)>>
    /\ Post(exception(event_queue, ServiceFailed(name)))
    /\ UNCHANGED <<core_vars, fuse_vars, lockindex_vars, expects, rest_vars>>

\* What the remote side may write to the stdout of ssh. A token as
\* secrets.token_hex(16) gives it: 32 hexadecimal digits.
TokenA == [i \in 1..TokenLen |-> IF i % 2 = 1 THEN 97 ELSE 48]
TokenB == [i \in 1..TokenLen |-> IF i % 2 = 1 THEN 98 ELSE 49]
\* 32 bytes that are 16 two-byte characters.
TokenWide == [i \in 1..TokenLen |-> IF i % 2 = 1 THEN 195 ELSE 169]
Handshake(token, checksum) == <<SOH>> \o token \o checksum \o <<STX>>

StreamGood == <<104, 105, 10>> \o Handshake(TokenA, hexdigest(TokenA)) \o <<111, 107>>
StreamBadChecksum == <<SOH, 97, 98, 99, STX, 111, 107>>
StreamOtherToken == Handshake(TokenA, hexdigest(TokenB))
StreamTrailing == Handshake(TokenA, hexdigest(TokenA) \o <<10>>)
StreamNoToken == <<110, 111, 10>>
StreamNoStx == <<SOH>> \o TokenA \o hexdigest(TokenA)
StreamUndecodable == <<SOH, 255, STX, 111, 107>>
StreamWide == Handshake(TokenWide, hexdigest(TokenWide))

Streams == {StreamGood, StreamBadChecksum, StreamOtherToken, StreamTrailing,
            StreamNoToken, StreamNoStx, StreamUndecodable, StreamWide, << >>}

InitLocal == InitFront

NextLocal ==
    \/ \E cache \in BOOLEAN : RunStart(cache) \/ RunSshMissing(cache)
    \/ \E stream \in Streams : SshWrite(stream)
    \/ \E returncode \in ExitCodes : SshExit(returncode)
    \/ SkimForward
    \/ SkimToken
    \/ SkimPass
    \/ RunExpectToken
    \/ RunExpectExit
    \/ \E name \in ServiceNames : ServiceFails(name)

SpecLocal == InitLocal /\ [][NextLocal]_vars

\* The bytes ssh wrote between the first SOH and the STX after it (or the
\* end of the output).
Written == IF ssh_wrote = None THEN << >> ELSE ssh_wrote[1]
AfterSoh(b) == IF Find(b, SOH, 1) = 0 THEN << >>
               ELSE SubSeq(b, Find(b, SOH, 1) + 1, Len(b))
UpToStx(b) == IF Find(b, STX, 1) = 0 THEN b
              ELSE SubSeq(b, 1, Find(b, STX, 1) - 1)
Framed == UpToStx(AfterSoh(Written))

\* The bytes are a token of 32 characters followed by the digest of it.
IsToken(b, chars) ==
    /\ decode(b).ok
    /\ Len(decode(b).str) = chars + DigestLen
    /\ SubSeq(decode(b).str, chars + 1, chars + DigestLen)
           = hexdigest(encode(SubSeq(decode(b).str, 1, chars)))

TokenPosted == \E i \in 1..Len(posted) : posted[i].event = "TOKEN_READ"
HandshakeFailedPosted ==
    \E i \in 1..Len(posted) :
        /\ posted[i].event = "EXCEPTION"
        /\ posted[i].value = RuntimeError(HandshakeFailed)
SkimmerChecked == skimmer.pc \in {"pass", "done", "crashed"}
RunSucceeded == run.pc = "done" /\ run.result[1].kind = "return"

\* C24: TOKEN_READ is posted only if the bytes between SOH and STX are a
\* token of 32 characters followed by the SHA-256 hex digest of the token;
\* if they are not, the skimmer posts the exception "handshake failed", the
\* run does not end well and no RPC service is started.
C24_TokenReadOnlyAfterValidHandshake ==
    /\ TokenPosted => IsToken(Framed, TokenLen)
    /\ SkimmerChecked /\ ~IsToken(Framed, TokenLen) => HandshakeFailedPosted
    /\ ssh_wrote # None /\ ~IsToken(Framed, TokenLen) =>
           started = {} /\ ~RunSucceeded

\* ---------------------------------------------------------------------------
\* The entry locks of the cache (caching/cache.py): the calls of
\* LockIndex.lock that get_metadata and open_contents make.

\* A cache whose _try_store_prefetches waits for the lock of a prefetch.
PrefetchBlocking_Wait == TRUE

\* _try_store_prefetches: self._entry_locks.lock(key, False).
PrefetchBlocking == FALSE

\* _lock_entry, called by get_metadata and open_contents: lock(key), which
\* waits for the mutex of the entry.
LockEntry(t, key) ==
    /\ frames[t] = << >>
    /\ LockEnter(t, key, TRUE)

\* _try_store_prefetches, called by _lock_entry inside the lock of its own
\* entry, for the key of a prefetch (which may be that of the entry).
TryStorePrefetch(t, key) ==
    /\ Len(frames[t]) = 1
    /\ Top(t).pc = "body"
    /\ LockEnter(t, key, PrefetchBlocking)

InitEntryLocks == InitLockIndex

NextEntryLocks ==
    \/ \E t \in Threads : \E key \in LockKeys : LockEntry(t, key)
    \/ \E t \in Threads : \E key \in LockKeys : TryStorePrefetch(t, key)
    \/ \E t \in Threads : LockAcquire(t)
    \/ \E t \in Threads : LockRelease(t)
    \/ \E t \in Threads : LockExit(t)

SpecEntryLocks == InitEntryLocks /\ [][NextEntryLocks]_vars

\* Thread t is inside acquire() and cannot return from it now.
Blocked(t) ==
    /\ frames[t] # << >>
    /\ Top(t).pc = "acquire"
    /\ ~acquire_returns(mutexes, Top(t).lock, Top(t).blocking)
Owns(t) == \E m \in DOMAIN mutexes : mutexes[m] = t

\* C27: a thread that holds the lock of an entry never waits for the lock
\* of another one, and the calls never deadlock: the lock a thread waits
\* for is held by a thread that does not wait, so some thread can always
\* take its next step.
C27_HoldersNeverWait ==
    \A t \in Threads :
        Blocked(t) =>
            /\ ~Owns(t)
            /\ mutexes[Top(t).lock] \in Threads \ {t}
            /\ ~Blocked(mutexes[Top(t).lock])

\* Overlapping prefetches: thread 1 holds "a", thread 2 holds "b", and each
\* has tried the lock of the other's entry in vain and goes on.
C27_Witness ==
    /\ Len(frames[1]) = 2 /\ Len(frames[2]) = 2
    /\ frames[1][1].key = "a" /\ frames[1][1].acquired
    /\ frames[2][1].key = "b" /\ frames[2][1].acquired
    /\ frames[1][2].key = "b" /\ frames[1][2].pc = "body" /\ ~frames[1][2].acquired
    /\ frames[2][2].key = "a" /\ frames[2][2].pc = "body" /\ ~frames[2][2].acquired

\* ---------------------------------------------------------------------------
\* save while calls of the file system are inside the cache.

\* One session with limits of one entry and no contents, or of four entries
\* and no contents; the cache directory starts empty, so save has nothing
\* to merge.
InitInflight ==
    InitWith({[s \in Sessions |-> c] :
                 c \in {Config(MachineA, FALSE, 1, 0), Config(MachineA, TRUE, 4, 0)}},
             {[m \in Machines |-> FileSystem(PlainL)]})

\* The threads are followed up to the save.
NextInflight ==
    \/ Tick
    \/ (Active(1) /\ MetadataStep({1}, Threads, Paths))
    \/ (Active(1) /\ ContentsStep({1}, Threads, Paths))
    \/ SaveBegin(1, TRUE)
    \/ SaveInflight(1, TRUE)
    \/ SaveEnd(1)

SpecInflight == InitInflight /\ [][NextInflight]_vars

\* Thread t holds the lock of key through the step and does nothing in it.
HoldsThrough(s, t, key) ==
    /\ key \in Held(s) /\ entry_locks[s][key] = t
    /\ key \in DOMAIN entry_locks'[s] /\ entry_locks'[s][key] = t
    /\ thr'[s][t] = thr[s][t]

\* C28: the entry of a key is read, written, inserted and removed only by
\* the thread that holds the lock of the key, save included: while a thread
\* holds the lock of a key, no step of anybody else inserts, removes or
\* changes the entry of that key.
C28_EntryTouchedUnderItsLockOnly ==
    [][\A s \in Sessions : \A t \in Threads : \A key \in Held(s) :
          HoldsThrough(s, t, key) =>
              /\ (key \in DOMAIN entries'[s]) = (key \in DOMAIN entries[s])
              /\ key \in DOMAIN entries[s] => entries'[s][key] = entries[s][key]]_vars

\* What the save has done to a thread inside open_contents: the thread has
\* stored the contents it read and holds the lock of the entry, and the
\* entry has no contents any more, or is gone.
SaveHitLockedEntry ==
    \E t \in Threads :
        /\ thr[1][t].pc = "oc_open"
        /\ phase[1] = "saving"
        /\ LET key == Key(1, thr[1][t].path)
           IN  /\ key \in Held(1) /\ entry_locks[1][key] = t
               /\ key \in DOMAIN entries[1] => IsNone(entries[1][key].contents)

\* ---------------------------------------------------------------------------
\* open_contents on dirty contents.

\* Thread t of session s takes a step out of the state th.
Leaves(s, t, th) == thr[s][t] = th /\ thr'[s][t] # th

\* The reply of the conditional read for the dirty contents old of the
\* entry of key arrives at thread t, r being what reading the file gives
\* on the local machine now.
DirtyChecked(s, t, key, old, r) ==
    IF ~r.ok
    THEN /\ thr'[s][t].pc = "idle"
         /\ last_ret'.op = "open_contents" /\ ~last_ret'.ok
         /\ entries'[s][key] = entries[s][key]
    ELSE IF sha256(r.data) = old.checksum
    THEN /\ thr'[s][t].pc = "oc_open"
         /\ entries'[s][key].contents = Some([old EXCEPT !.dirty = FALSE])
         /\ contents_dir' = contents_dir
    ELSE /\ thr'[s][t].pc = "oc_open"
         /\ IsSome(entries'[s][key].contents)
         /\ Val(entries'[s][key].contents).storage # old.storage
         /\ Val(entries'[s][key].contents).storage \notin DOMAIN contents_dir
         /\ contents_dir'[Val(entries'[s][key].contents).storage] = r.data
         /\ Val(entries'[s][key].contents).checksum = sha256(r.data)
         /\ ~Val(entries'[s][key].contents).dirty

\* C29: open_contents returns a descriptor only for contents that are not
\* marked dirty. Dirty contents are checked first by a conditional read
\* with the checksum stored: when the file still has that checksum the
\* flag is cleared and the blob kept, when it has another one a new blob
\* with the new checksum takes its place, and when the read fails the open
\* fails and the entry stays as it is, dirty.
C29_DirtyContentsCheckedBeforeOpen ==
    [][\A s \in Sessions : \A t \in Threads :
          LET th == thr[s][t]
              key == Key(s, th.path)
          IN
          /\ (th.pc = "oc_open" /\ thr'[s][t].pc = "idle") =>
                /\ last_ret'.ok /\ IsSome(last_ret'.data)
                /\ IsSome(entries[s][key].contents)
                /\ ~Val(entries[s][key].contents).dirty
          /\ (/\ th.pc = "oc_read_rpc" /\ ~th.force /\ Leaves(s, t, th)
              /\ IsSome(entries[s][key].contents)
              /\ Val(entries[s][key].contents).dirty) =>
                DirtyChecked(s, t, key, Val(entries[s][key].contents),
                             os_read(Fs(s), th.path))]_vars

\* /m.py was rewritten between the metadata call and the read of its first
\* open; sync has found new metadata and marked the contents dirty; the
\* second open has sent the conditional read, found the checksum unchanged
\* and served the first blob, clean again.
C29_Witness ==
    /\ read_calls[1][PathPy] = 2
    /\ changes = 1
    /\ uuid = 1
    /\ last_ret.op = "open_contents" /\ last_ret.path = PathPy /\ last_ret.ok
    /\ served[1][PathPy] = Some(Fs(1)[PathPy].data)
    /\ Key(1, PathPy) \in DOMAIN entries[1]
    /\ entries[1][Key(1, PathPy)].last_update = 1
    /\ entries[1][Key(1, PathPy)].contents
           = Some(ContentsBlob(1, Len(Fs(1)[PathPy].data),
                               sha256(Fs(1)[PathPy].data), FALSE))
    /\ PathPy \notin sync_since[1]

\* ---------------------------------------------------------------------------
\* What sync does to the entries.

MkdirStep(M, P) == \E m \in M : \E p \in P : LocalMkdir(m, p)

\* One session opens /m.py and /l and syncs while /m.py is rewritten,
\* protected, removed or replaced by a directory.
InitResync == InitSync

NextResync ==
    \/ NextSync
    \/ MkdirStep({MachineA}, {PathPy})

SpecResync == InitResync /\ [][NextResync]_vars

\* The paths whose round of sync's loop the step is.
Applied(s) ==
    IF main[s].pc = "sync_apply" /\ main'[s].pc = "sync_apply"
    THEN DOMAIN main[s].pending \ DOMAIN main'[s].pending
    ELSE {}

\* e is the entry before and e2 the entry after the round for the new
\* metadata new.
Resynced(e, e2, new, now) ==
    /\ e2.path = e.path
    /\ e2.meta = new
    /\ e2.last_update = now
    /\ IF IsNone(e.contents)
       THEN IsNone(e2.contents)
       ELSE IF IsSome(new.error)
               \/ (IsSome(new.attr) /\ ~S_ISREG(Val(new.attr).st_mode))
       THEN IsNone(e2.contents)
       ELSE e2.contents = Some([Val(e.contents) EXCEPT !.dirty = TRUE])

\* C30: a step of sync changes the entries of the paths the local service
\* has reported as changed and no others. The entry of a reported path gets
\* the new metadata and a fresh last_update; its contents, if it has any,
\* are dropped when the new metadata carries an error or describes a file
\* that is not regular, and marked dirty otherwise. Every other entry keeps
\* all its fields, and no entry comes or goes.
C30_SyncTouchesChangedEntriesOnly ==
    [][\A s \in Sessions :
          /\ (main[s].pc = "idle" /\ main'[s].pc = "sync_apply") =>
                /\ entries'[s] = entries[s]
                /\ main'[s].pending
                      = get_changed_metadata(svc[s], Fs(s), cached_metadata(s)).ret
          /\ (main[s].pc = "sync_apply" /\ main'[s] # main[s]) =>
                /\ DOMAIN entries'[s] = DOMAIN entries[s]
                /\ Cardinality(Applied(s)) <= 1
                /\ \A key \in DOMAIN entries[s] :
                      IF entries[s][key].path \in Applied(s)
                      THEN Resynced(entries[s][key], entries'[s][key],
                                    main[s].pending[entries[s][key].path], clock)
                      ELSE entries'[s][key] = entries[s][key]]_vars

\* /m.py was opened and then replaced by a directory; sync has given its
\* entry the metadata of the directory and dropped its contents, and has
\* left the entry of /l as it was.
C30_Witness ==
    /\ main[1].pc = "idle"
    /\ PathPy \in sync_since[1]
    /\ IsSome(served[1][PathPy])
    /\ Key(1, PathPy) \in DOMAIN entries[1]
    /\ IsSome(entries[1][Key(1, PathPy)].meta.attr)
    /\ S_ISDIR(Val(entries[1][Key(1, PathPy)].meta.attr).st_mode)
    /\ IsNone(entries[1][Key(1, PathPy)].contents)
    /\ entries[1][Key(1, PathPy)].last_update = 1
    /\ Key(1, PathL) \in DOMAIN entries[1]
    /\ entries[1][Key(1, PathL)].last_update = 0

\* ---------------------------------------------------------------------------
\* open_contents when the blob file is gone.

\* outrun is started again on the remote machine after session s has
\* ended: RemoteCache.__init__ with the settings c of the new invocation
\* leaves an empty cache on the same cache directory and sets the
\* prefetchable paths of the new service.
NewSession(s, c) ==
    /\ phase[s] = "done"
    /\ AllIdle(s)
    /\ main[s].pc = "idle"
    /\ config' = [config EXCEPT ![s] = c]
    /\ entries' = [entries EXCEPT ![s] = << >>]
    /\ entry_locks' = [entry_locks EXCEPT ![s] = << >>]
    /\ phase' = [phase EXCEPT ![s] = "new"]
    /\ svc' = [svc EXCEPT ![s] =
                  set_prefetchable_paths(NewService, Some(c.cacheable_paths))]
    /\ meta_fetches' = [meta_fetches EXCEPT ![s] = [p \in Paths |-> 0]]
    /\ read_calls' = [read_calls EXCEPT ![s] = [p \in Paths |-> 0]]
    /\ answers' = [answers EXCEPT ![s] = [p \in Paths |-> {}]]
    /\ served' = [served EXCEPT ![s] = [p \in Paths |-> None]]
    /\ sync_since' = [sync_since EXCEPT ![s] = {}]
    /\ changed_during' = [changed_during EXCEPT ![s] = {}]
    /\ created_by' = [created_by EXCEPT ![s] = [p \in AllPaths |-> "none"]]
    /\ waited' = [waited EXCEPT ![s] = {}]
    /\ UNCHANGED <<aux_vars, clock, main, thr, disk_vars, files, changes,
                   last_ret, saved_entries>>

\* Session 1 keeps up to four entries and four bytes; session 2 is run
\* again and again, first with the same limits and later with room for no
\* contents at all.  Both work for the same local machine in one cache
\* directory, which starts empty.
InitMissing ==
    InitWith({[s \in Sessions |-> Config(MachineA, FALSE, 4, 4)]},
             {[m \in Machines |-> FileSystem(PlainL)]})

NextMissing ==
    \/ ContentsStep(Sessions, {1}, {PathPy})
    \/ MissingStep({1}, {1})
    \/ DiskStep(Sessions, {TRUE})
    \/ NewSession(2, Config(MachineA, FALSE, 4, 0))

SpecMissing == InitMissing /\ [][NextMissing]_vars

\* C31 as stated: a call of open_contents that has made its forced
\* refresh after a missing blob file does not refresh again: the second
\* os.open ends the call, with a descriptor or with the failure.
C31_OneForcedRefresh ==
    [][\A s \in Sessions : \A t \in Threads :
          (thr[s][t].pc = "oc_open" /\ thr[s][t].force)
              => thr'[s][t].pc # "oc_read_rpc"]_vars

\* The blob file written by the forced refresh is gone as well when the
\* call comes to open it.
MissingAfterForcedRefresh ==
    \E t \in Threads :
        /\ thr[1][t].pc = "oc_open" /\ thr[1][t].force
        /\ ~blob_exists(entries[1][Key(1, thr[1][t].path)], contents_dir)

\* ---------------------------------------------------------------------------
\* The operations RemoteCachedFileSystem inherits from RemoteFileSystem.

\* LocalFileSystemService.lseek(fh, 0, os.SEEK_SET) and fsync(fh, datasync)
\* on a descriptor the service has open: the position 0, and None.
fs_by_handle(op) == IF op = "lseek" THEN Gives(PyInt(0)) ELSE Gives(<<>>)

\* What os.lseek and os.fsync of the service give for a number that is a
\* descriptor of the remote process: OSError(EBADF) when the service has no
\* descriptor of that number, and the result for one of its own open files
\* when it has (open are the files open on the service).
fs_foreign_handle(op, open) ==
    {Raises("OSError", "EBADF")}
        \cup (IF open = {} THEN {} ELSE {fs_by_handle(op)})

\* The operations that only take a file handle and are not overridden by
\* RemoteCachedFileSystem.
HandleOps == {"lseek", "fsync"}

\* RemoteFileSystem.lseek and RemoteFileSystem.fsync on a file open was
\* called for: self._client.<op>(fh, ...) whatever the path is.  For a
\* cacheable path fh is the descriptor of the blob that open_contents
\* returned.
FsByHandle(s, op, p) ==
    \/ /\ is_cacheable(config[s].cacheable_paths, p)
       /\ IsSome(served[s][p])
       /\ \E r \in fs_foreign_handle(op, handles[s]) :
             Forward(s, op, p, r, handles[s])
    \/ /\ ~is_cacheable(config[s].cacheable_paths, p)
       /\ \E h \in handles[s] :
             /\ h.path = p
             /\ Forward(s, op, p, fs_by_handle(op), handles[s])

InitHandles == InitFront

NextHandles ==
    \/ \E p \in Paths : FsOpen(1, 1, p)
    \/ \E p \in Paths : FsRead(1, p)
    \/ \E p \in Paths : FsRelease(1, p)
    \/ \E p \in Paths : FsFlush(1, p)
    \/ \E op \in HandleOps : \E p \in Paths : FsByHandle(1, op, p)
    \/ WriteStep({MachineA}, {PathL})

SpecHandles == InitHandles /\ [][NextHandles]_vars

\* C32 as stated: no operation that is given the file handle of a
\* cacheable path sends a call to the file system service of the local
\* machine.
C32_BlobHandleStaysRemote ==
    \A s \in Sessions : \A p \in Paths :
        ~Outside(s, p) =>
            \A op \in HandleOps \cup {"read", "release", "flush"} :
                <<op, p>> \notin fs_calls[s]

\* /l is cacheable and was opened through the cache, and lseek on the
\* descriptor of its blob went to the file system service, which has no
\* such descriptor.
BlobHandleSent ==
    /\ ~Outside(1, PathL)
    /\ IsSome(served[1][PathL])
    /\ <<"lseek", PathL>> \in fs_calls[1]
    /\ last_ret.op = "lseek" /\ last_ret.path = PathL /\ ~last_ret.ok

\* ---------------------------------------------------------------------------
\* open_contents with the flags of the caller.

\* One session without prefetching; the cache directory starts empty.
InitFlags ==
    InitWith({[s \in Sessions |-> Config(MachineA, FALSE, 4, 4)]},
             {[m \in Machines |-> FileSystem(PlainL)]})

\* open_contents(p, flags) by thread 1, for every flags in OpenFlags.
NextFlags ==
    \/ Tick
    \/ \E p \in Paths : OpenContentsHit(1, 1, p)
    \/ \E p \in Paths : OpenContentsMiss(1, 1, p)
    \/ OcMetaReturn(1, 1)
    \/ OcReadReturn(1, 1)
    \/ \E flags \in OpenFlags : OcOpenWith(1, 1, flags)
    \/ WriteStep({MachineA}, {PathPy})
    \/ DiskStep({1}, {TRUE})

SpecFlags == InitFlags /\ [][NextFlags]_vars

\* C33 as stated: whatever the flags, open_contents leaves the bytes of
\* every blob file as they were written.
C33_BlobsNeverWritten ==
    [][\A b \in DOMAIN contents_dir \cap DOMAIN contents_dir' :
          contents_dir'[b] = contents_dir[b]]_vars

\* open_contents has returned a descriptor of a blob it has emptied: the
\* entry still gives the size and the checksum of the file's contents.
BlobTruncated ==
    /\ last_ret.op = "open_contents" /\ last_ret.ok
    /\ last_ret.data = Some(<<>>)
    /\ LET e == entries[1][Key(1, last_ret.path)]
       IN  /\ IsSome(e.contents)
           /\ Val(e.contents).size > 0
           /\ contents_dir[Val(e.contents).storage] = <<>>

\* ---------------------------------------------------------------------------
\* sync in a cache directory shared by sessions of two local machines.

\* Session 1 works for machine a and session 2 for machine b, both with
\* prefetching; the machines have the same files until /m.py is rewritten
\* on machine b.
InitFetched ==
    InitWith({[s \in Sessions |->
                  Config(IF s = 1 THEN MachineA ELSE MachineB, TRUE, 4, 4)]},
             {[m \in Machines |-> FileSystem(PlainL)]})

NextFetched ==
    \/ MetadataStep(Sessions, {1}, {PathL})
    \/ ContentsStep({2}, {1}, {PathPy})
    \/ SyncStep(Sessions)
    \/ DiskStep(Sessions, {TRUE})
    \/ WriteStep({MachineB}, {PathPy})

SpecFetched == InitFetched /\ [][NextFetched]_vars

\* The keys of session s's own machine among its entries.
OwnKeys(s) == {k \in DOMAIN entries[s] : StartsWith(k, config[s].machine_id)}

\* The paths session s holds clean contents of for its own machine.
OwnCleanPaths(s) ==
    {entries[s][k].path :
        k \in {x \in OwnKeys(s) : /\ IsSome(entries[s][x].contents)
                                  /\ ~Val(entries[s][x].contents).dirty}}

\* C34 as stated: the metadata sync sends are those of the entries of the
\* session's own machine, and the paths sync reports as already fetched
\* are exactly the paths of own-machine entries with clean contents.
C34_SyncOwnMachineOnly ==
    /\ [](\A s \in Sessions :
            DOMAIN cached_metadata(s) = {entries[s][k].path : k \in OwnKeys(s)})
    /\ [][\A s \in Sessions :
            (main[s].pc = "sync_apply" /\ main'[s].pc = "idle")
               => svc'[s].fetched_contents
                     = svc[s].fetched_contents \cup OwnCleanPaths(s)]_vars

\* The service of machine a has /m.py down as fetched, and session 1 has
\* no entry of /m.py for machine a and has never read it: the contents
\* are those session 2 cached for machine b.
OtherMachineReported ==
    /\ PathPy \in svc[1].fetched_contents
    /\ Key(1, PathPy) \notin DOMAIN entries[1]
    /\ Key(2, PathPy) \in DOMAIN entries[1]
    /\ read_calls[1][PathPy] = 0

\* ---------------------------------------------------------------------------
\* The workers of the RPC server inside one LocalCacheService at a time.

\* Everything but the service, its workers and the lists they returned.
resolve_rest == <<clock, config, cache_vars, disk_vars, files, changes, hist_vars,
                  front_vars, svc_ret, rpc_vars, ext_vars>>

\* Worker w has the base result and the suggestions of the rules, and
\* enters _resolve_prefetches; after is the service the base call left.
ResolveBegin(w, after, suggestions) ==
    /\ svc' = [svc EXCEPT ![1] = after]
    /\ resolving' = [resolving EXCEPT ![w] =
                        [pc |-> "check", suggestions |-> suggestions,
                         paths |-> SuggestedPaths(suggestions, <<>>),
                         prefetches |-> <<>>]]
    /\ UNCHANGED <<resolve_rest, returned>>

\* The number of prefetching calls begun so far.
Begun == Len(returned) + Cardinality({w \in Workers : resolving[w].pc # "idle"})

\* A worker starts LocalCacheService.get_metadata_prefetch(p): get_metadata
\* and the rules of file_access.
WorkerGetMetadataPrefetch(w, p) ==
    /\ resolving[w].pc = "idle"
    /\ Begun < MaxCalls
    /\ ResolveBegin(w, get_metadata(svc[1], Fs(1), p).svc, file_access(Fs(1), p))

\* A worker starts LocalCacheService.readfile_prefetch(p): readfile, which
\* may raise and end the call, and the rules of file_read.
WorkerReadfilePrefetch(w, p) ==
    /\ resolving[w].pc = "idle"
    /\ Begun < MaxCalls
    /\ IF readfile(svc[1], Fs(1), p).ok
       THEN ResolveBegin(w, readfile(svc[1], Fs(1), p).svc, file_read(Fs(1), p))
       ELSE UNCHANGED vars

\* The head of the loop of _resolve_prefetches for the next path: under
\* _fetched_lock the worker decides whether the path is passed over; the
\* lock is released before anything is fetched.  An exception of
\* _is_prefetchable ends the call with no prefetches.
ResolveCheck(w) ==
    LET r == resolving[w]
        path == Head(r.paths)
    IN
    /\ r.pc = "check"
    /\ r.paths # <<>>
    /\ IF prefetchable_raises(svc[1], path)
       THEN /\ resolving' = [resolving EXCEPT ![w] = NoResolve]
            /\ returned' = Append(returned, <<>>)
       ELSE /\ resolving' = [resolving EXCEPT ![w] =
                IF skip_prefetch(svc[1], path, prefetch_contents(r.suggestions, path))
                THEN [r EXCEPT !.paths = Tail(@)]
                ELSE [r EXCEPT !.pc = "fetch"]]
            /\ UNCHANGED returned
    /\ UNCHANGED <<resolve_rest, svc>>

\* The rest of the loop body: get_metadata of the path, readfile when the
\* contents are wanted, and the entry is appended.
ResolveFetch(w) ==
    LET r == resolving[w]
        path == Head(r.paths)
        one == prefetch_path(svc[1], Fs(1), path, prefetch_contents(r.suggestions, path))
    IN
    /\ r.pc = "fetch"
    /\ svc' = [svc EXCEPT ![1] = one.svc]
    /\ resolving' = [resolving EXCEPT ![w] =
                        [r EXCEPT !.pc = "check", !.paths = Tail(@),
                                  !.prefetches = Append(@, one.entry)]]
    /\ UNCHANGED <<resolve_rest, returned>>

\* The loop is over: the call returns its prefetches.
ResolveReturn(w) ==
    /\ resolving[w].pc = "check"
    /\ resolving[w].paths = <<>>
    /\ returned' = Append(returned, resolving[w].prefetches)
    /\ resolving' = [resolving EXCEPT ![w] = NoResolve]
    /\ UNCHANGED <<resolve_rest, svc>>

\* /l is an ELF file linked against /m.py.
ElfL == File(TRUE, ModeRegRW, <<"E">> \o PathPy, 0, None)

\* One service whose prefetchable paths are everything below /; /l is an
\* ELF file linked against /m.py, or a symlink to it.
InitWorkers ==
    InitWith({[s \in Sessions |-> Config(MachineA, TRUE, 4, 4)]},
             {[m \in Machines |-> FileSystem(l)] : l \in {ElfL, LinkL}})

NextWorkers ==
    \/ \E w \in Workers : \E p \in Paths : WorkerGetMetadataPrefetch(w, p)
    \/ \E w \in Workers : \E p \in Paths : WorkerReadfilePrefetch(w, p)
    \/ \E w \in Workers : ResolveCheck(w)
    \/ \E w \in Workers : ResolveFetch(w)
    \/ \E w \in Workers : ResolveReturn(w)
    \/ RemoveStep({MachineA}, {PathL})

SpecWorkers == InitWorkers /\ [][NextWorkers]_vars

\* The lists returned that hold the contents of path p.
ListsWithContents(p) ==
    {i \in 1..Len(returned) :
        \E j \in 1..Len(returned[i]) :
            returned[i][j].path = p /\ IsSome(returned[i][j].contents)}

\* C36 as stated: the contents of a path are in one returned prefetch list
\* at most.
C36_ContentsPrefetchedOnce ==
    \A p \in AllPaths : Cardinality(ListsWithContents(p)) <= 1

\* Two calls that ran side by side have both returned the contents of
\* /m.py.
PrefetchedTwice ==
    /\ Len(returned) = 2
    /\ ListsWithContents(PathPy) = {1, 2}
    /\ \A w \in Workers : resolving[w].pc = "idle"

\* ---------------------------------------------------------------------------
\* Two sessions that have loaded the same entry.

\* Both sessions work for machine a within the limits of four entries and
\* four bytes.  Session 1 is run twice: what its first run saves is what
\* its second run and session 2 load.
InitLoaded ==
    InitWith({[s \in Sessions |-> Config(MachineA, FALSE, 4, 4)]},
             {[m \in Machines |-> FileSystem(PlainL)]})

NextLoaded ==
    \/ Tick
    \/ MetadataStep({1}, {1}, {PathPy})
    \/ ContentsStep({1}, {1}, {PathPy})
    \/ DiskStep(Sessions, {TRUE})
    \/ NewSession(1, Config(MachineA, FALSE, 4, 4))

SpecLoaded == InitLoaded /\ [][NextLoaded]_vars

\* Both sessions have the entry of /m.py from the index; session 1 has
\* opened the file since and has saved, session 2 has opened nothing.
OneCachedContents ==
    /\ \A s \in Sessions : created_by[s][PathPy] = "disk"
    /\ IsSome(served[1][PathPy]) /\ phase[1] = "done"
    /\ IsNone(served[2][PathPy]) /\ read_calls[2][PathPy] = 0

\* C35 as stated: when session 2 then saves, the index it writes still
\* has the contents session 1 cached, and their blob file is on disk.
C35_LaterSaveKeepsContents ==
    [][(OneCachedContents /\ phase[2] = "saving" /\ phase'[2] = "done")
          => LET e == load_json(Val(index'))[Key(1, PathPy)]
             IN  /\ IsSome(e.contents)
                 /\ Val(e.contents).storage \in DOMAIN contents_dir']_vars

\* Session 2 has saved last: the index has the entry of /m.py without
\* contents and the contents directory is empty, while the index session
\* 1 wrote had the contents.
ContentsLostBySave ==
    /\ OneCachedContents /\ phase[2] = "done"
    /\ saved_entries = entries[2]
    /\ IsSome(entries[1][Key(1, PathPy)].contents)
    /\ IsNone(load_json(Val(index))[Key(1, PathPy)].contents)
    /\ contents_dir = << >>

\* ---------------------------------------------------------------------------
\* The merge step of save.

\* As for SpecLoaded, with /m.py rewritten on the local machine and sync
\* in both sessions, so that the copies of an entry differ in last_update.
\* Session s enters save in this step.
SaveStarts(s) == phase[s] # "saving" /\ phase'[s] = "saving"

\* The entry the merge leaves under key k, given the entries of the
\* index and those in memory.
MergeRule(disk, mem, k) ==
    IF k \in DOMAIN disk
          /\ (k \notin DOMAIN mem \/ disk[k].last_update > mem[k].last_update)
    THEN disk[k]
    ELSE mem[k]

\* C37: the entries save goes on with, the limits of the LRU pass not
\* being exceeded, are those in memory and those of the index; a key of
\* the index has the index's entry exactly when memory has none or an
\* entry of strictly smaller last_update, and the entry in memory
\* otherwise, as has every key that is in memory only.
C37_MergeTakesStrictlyNewer ==
    [][\A s \in Sessions :
          SaveStarts(s) =>
             LET disk == read_disk_entries(index).ret
                 mem == entries[s]
             IN  /\ DOMAIN entries'[s] = DOMAIN disk \cup DOMAIN mem
                 /\ \A k \in DOMAIN entries'[s] :
                       entries'[s][k] = MergeRule(disk, mem, k)]_vars

\* Session 2 is inside save: the index held the entry of /m.py with
\* contents and the same last_update as the copy in memory, which has
\* none, and the copy in memory was kept.
C37_Witness ==
    LET k == Key(2, PathPy) IN
    /\ phase[2] = "saving"
    /\ IsSome(index) /\ k \in DOMAIN load_json(Val(index))
    /\ k \in DOMAIN entries[2]
    /\ load_json(Val(index))[k].last_update = entries[2][k].last_update
    /\ IsSome(load_json(Val(index))[k].contents)
    /\ IsNone(entries[2][k].contents)


\* ---------------------------------------------------------------------------
\* What storing prefetched entries leaves alone.  Two sessions with
\* prefetching, one after the other on one cache directory: two threads
\* of the first ask for metadata and one opens /m.py, the second session
\* loads what the first saved and opens /l.  /l is an executable that
\* needs /m.py, whose contents come with those of /l, or a symlink to
\* /m.py, whose metadata comes with that of /l.

InitStore ==
    InitWith({[s \in Sessions |-> Config(MachineA, TRUE, 4, 4)]},
             {[m \in Machines |-> FileSystem(l)] : l \in {ElfL, LinkL}})

NextStore ==
    \/ Tick
    \/ MetadataStep(Running \cap {1}, Threads, Paths)
    \/ ContentsStep(Running \cap {1}, {1}, {PathPy})
    \/ ContentsStep(Running \ {1}, {1}, {PathL})
    \/ SyncStep(Running \ {1})
    \/ DiskStep(Running, {TRUE})
    \/ WriteStep({MachineA}, {PathPy})

SpecStore == InitStore /\ [][NextStore]_vars

\* Thread t of session s gets the reply of its call in this step and
\* stores the prefetches that came with it.
StoresPrefetches(s, t) ==
    /\ thr[s][t].pc \in {"gm_rpc", "oc_meta_rpc", "oc_read_rpc"}
    /\ thr'[s][t] # thr[s][t]

\* The entry of key is after the step what it was before.
EntryUntouched(s, key) ==
    /\ (key \in DOMAIN entries'[s]) = (key \in DOMAIN entries[s])
    /\ key \in DOMAIN entries[s] => entries'[s][key] = entries[s][key]

\* What the step may have done to the entry of key, a key other than that
\* of the call.
PrefetchFrame(s, key) ==
    IF key \in DOMAIN entries[s]
    THEN LET old == entries[s][key] IN
         /\ key \in DOMAIN entries'[s]
         /\ entries'[s][key].meta = old.meta
         /\ entries'[s][key].last_access = old.last_access
         /\ entries'[s][key].contents # old.contents =>
               /\ IsNone(old.contents) \/ Val(old.contents).dirty
               /\ IsSome(entries'[s][key].contents)
               /\ Val(entries'[s][key].contents).storage \notin DOMAIN contents_dir
    ELSE key \in DOMAIN entries'[s] => entries'[s][key].last_access = 0

\* C38: storing the prefetches of a reply leaves the metadata and the
\* last_access of every entry that was there as they were, and its contents
\* too unless it had none or dirty ones, which a new blob file replaces; an
\* entry it creates has last_access = 0; no blob file that was there is
\* written or removed; and the entry of a key another thread holds the
\* lock of is not touched, nor created.
C38_PrefetchStoreFrame ==
    [][\A s \in Sessions : \A t \in Threads :
          StoresPrefetches(s, t) =>
             /\ \A b \in DOMAIN contents_dir :
                   b \in DOMAIN contents_dir' /\ contents_dir'[b] = contents_dir[b]
             /\ \A p \in AllPaths \ {thr[s][t].path} :
                   /\ PrefetchFrame(s, Key(s, p))
                   /\ (Key(s, p) \in Held(s) /\ entry_locks[s][Key(s, p)] # t) =>
                         EntryUntouched(s, Key(s, p))]_vars

\* /l is a symlink to /m.py and thread 1 has its metadata; the entry of
\* /m.py that came with it was dropped, for thread 2 held the lock of
\* /m.py then and still waits for its own reply.
C38_Witness ==
    /\ Key(1, PathL) \in DOMAIN entries[1]
    /\ IsSome(entries[1][Key(1, PathL)].meta.link)
    /\ created_by[1][PathL] = "fetch"
    /\ thr[1][1].pc = "idle"
    /\ thr[1][2].pc = "gm_rpc" /\ thr[1][2].path = PathPy
    /\ Key(1, PathPy) \notin DOMAIN entries[1]
    /\ phase[2] = "new"


\* ---------------------------------------------------------------------------
\* How save writes the index (cache.py:366-367): open(index_path, "w")
\* empties index.json, dump_json writes the encoding into it and the end
\* of the with block closes it.

\* save opens index.json for writing: the file is emptied, and what is in
\* it from now on is the head of the encoding that dump_json has written.
IndexOpen(s) ==
    /\ main[s].pc = "save_write"
    /\ index_lock = s
    /\ ~index_torn
    /\ index_torn' = TRUE
    /\ UNCHANGED <<aux_vars, clock, config, cache_vars, index, contents_dir,
                   index_lock, uuid, local_vars, hist_vars>>

\* The process of session s stops inside save, after it took the index
\* lock and before the index is written out: the lock file is released
\* with the process.
Stop(s) ==
    /\ main[s].pc = "save_write"
    /\ index_lock = s
    /\ index_lock' = 0
    /\ main' = [main EXCEPT ![s].pc = "idle"]
    /\ phase' = [phase EXCEPT ![s] = "done"]
    /\ UNCHANGED <<aux_vars, clock, config, entries, entry_locks, thr, index,
                   index_torn, contents_dir, uuid, local_vars, hist_vars>>

\* save of a session that finds an index.json it cannot decode: the error
\* is logged and nothing is merged.
SaveOverTorn(s) ==
    /\ index_torn
    /\ SaveBegin(s, FALSE)

\* Two sessions without prefetching on one cache directory; load and save
\* read index.json only while it is whole.
InitInstall ==
    InitWith({[s \in Sessions |-> Config(MachineA, FALSE, 4, 4)]},
             {[m \in Machines |-> FileSystem(PlainL)]})

NextInstall ==
    \/ Tick
    \/ MetadataStep(Sessions, {1}, Paths)
    \/ (~index_torn /\ \E s \in Sessions : Load(s))
    \/ (~index_torn /\ \E s \in Sessions : SaveBegin(s, TRUE))
    \/ \E s \in Sessions : SaveOverTorn(s)
    \/ \E s \in Sessions : IndexOpen(s)
    \/ \E s \in Sessions : SaveEnd(s)
    \/ \E s \in Sessions : Stop(s)

SpecInstall == InitInstall /\ [][NextInstall]_vars

\* C39: index.json holds at every instant a whole index, the one before
\* the save or the one the save writes, whether or not the process stops
\* inside save.
C39_IndexAlwaysWhole == ~index_torn

\* Session 1 had saved an index with an entry; session 2 stopped inside
\* its save after opening index.json: nobody holds the index lock, and the
\* file holds the head of an encoding, not the index of session 1.
IndexLeftTorn ==
    /\ index_torn
    /\ index_lock = 0
    /\ phase[1] = "done" /\ phase[2] = "done"
    /\ IsSome(index) /\ DOMAIN Val(index) # {}


\* ---------------------------------------------------------------------------
\* The sockets of a Client (rpc/__init__.py): _socket_pool has one REQ
\* socket for each thread that has made a call.

\* The messages on the way on the socket of thread t: its requests that no
\* worker has taken and the replies it has not received.
RequestsOf(t) == {i \in 1..Len(requests) : requests[i].from = t}
Outstanding(t) == Cardinality(RequestsOf(t)) + Len(replies[t])

\* The arguments a call of the function name is made with.
ArgsOf(name) == IF name = Some("getattr") THEN Paths ELSE {None}

\* What the call of name with args returns or raises when it receives the
\* reply a worker sends to its own request.
own_outcome(name, args) ==
    LET u == unpack(pack(<<Native(client_token), Native(name), Native(args)>>).data)
        r == unpack(worker_reply(Fs(1), u.objs[1].v, u.objs[2].v, u.objs[3].v).data)
    IN  Named(call_outcome(r.objs[1].v, r.objs[2]), name)

\* Thread t receives a reply in this step.
Receives(t) == IsSome(calling[t]) /\ replies'[t] # replies[t] /\ IsNone(calling'[t])

\* C40: a thread has a socket from its first call on and keeps it; at most
\* one message is on the way on a socket, and only while the socket waits
\* for a reply; a thread inside a call has exactly one on the way, so that
\* requests and replies alternate; and the call that receives a reply
\* returns or raises what the reply to its own request says, also after an
\* earlier call of the thread timed out.
C40_RequestsAndRepliesAlternate ==
    /\ [](\A t \in Threads :
            /\ (socket_pool[t] = "none") = (calls[t] = 0)
            /\ Outstanding(t) <= 1
            /\ Outstanding(t) = 1 => socket_pool[t] = "sent"
            /\ IsSome(calling[t]) => Outstanding(t) = 1)
    /\ [][\A t \in Threads :
            /\ socket_pool[t] # "none" => socket_pool'[t] # "none"
            /\ Cardinality(RequestsOf(t))' > Cardinality(RequestsOf(t)) =>
                  Outstanding(t) = 0
            /\ Receives(t) =>
                  \E args \in ArgsOf(Val(calling[t]).name) :
                      outcome'[t] = own_outcome(Val(calling[t]).name, args)]_vars

\* Thread 1 timed out on its first call, whose reply has arrived since;
\* its second call was refused by the socket and the reply is still there.
C40_Witness ==
    /\ calls[1] = 2
    /\ IsNone(calling[1])
    /\ socket_pool[1] = "sent"
    /\ Len(replies[1]) = 1
    /\ outcome[1].via = "send"

=============================================================================
